---- MODULE Spec2Model ----
(***************************************************************************)
(* Consortium v1 proof-of-authority engine (consensus/consortium/v1) and   *)
(* the fork predicates of params.ChainConfig it consults.                  *)
(*                                                                         *)
(* Hashes are modelled as collision-free: the hash of a header is the      *)
(* header itself (wrapped in a 1-tuple), the zero hash is the empty tuple. *)
(* Inside a hash a signature is kept as its key and whether it signs the   *)
(* header it sits in.                                                      *)
(* A signature is the pair (key, signed message); recovering it against a  *)
(* different message yields an address nobody holds (JunkAddress).         *)
(* Byte strings are modelled by their layout: the extra-data is            *)
(* [vanity bytes][whole 20-byte addresses][slack bytes][65-byte seal].     *)
(***************************************************************************)
EXTENDS Integers, Sequences, FiniteSets, TLC

VARIABLES
    config,      \* Consortium.chainConfig / Consortium.config / skipCheckpointHeaderCheck
    chain,       \* the ChainHeaderReader: canonical headers, block 0 first
    recents,     \* Consortium.recents: hash -> snapshot (in memory)
    disk,        \* Consortium.db: hash -> snapshot (persisted)
    signatures,  \* Consortium.signatures: hash -> recovered signer
    val,         \* Consortium.val and Consortium.signFn, set under Consortium.lock
    last,        \* the call in progress and what it returned
    vh,          \* the VerifyHeaders emitter goroutine and its channels
    sl,          \* the Seal call, its background goroutine and its channels
    fz,          \* the last Finalize / FinalizeAndAssemble call and the WrapUpEpoch calls so far
    cc           \* the last call of a ChainConfig check, and the loop of CheckCompatible

vars == <<config, chain, recents, disk, signatures, val, last, vh, sl, fz, cc>>

(***************************************************************************)
(* Protocol constants.                                                     *)
(***************************************************************************)
extraVanity == 32
ExtraSeal == 65
AddressLength == 20
diffInTurn == 7
diffNoTurn == 3
epochLength == 30000
FullImmutabilityThreshold == 90000
wiggleTime == 1

(***************************************************************************)
(* Bounds of the exploration.                                              *)
(***************************************************************************)
MaxHeight == 3
MaxBatch == 2
MaxSystemTxs == 2

Null == -1
ZeroHash == <<>>
ZeroAddress == "0x0"
JunkAddress == "0x?"
uncleHash == "keccak(rlp([]))"
emptyNonce == 0

(***************************************************************************)
(* Errors.                                                                 *)
(***************************************************************************)
OK == "nil"
ErrUnknownBlock == "unknown block"
ErrFutureBlock == "block in the future"
errInvalidNonce == "nonce not 0x00..0"
ErrMissingVanity == "extra-data 32 byte vanity prefix missing"
ErrMissingSignature == "extra-data 65 byte signature suffix missing"
errExtraSigners == "non-checkpoint block contains extra signer list"
ErrInvalidCheckpointSigners == "invalid signer list on checkpoint block"
ErrInvalidMixDigest == "non-zero mix digest"
ErrInvalidUncleHash == "non empty uncle hash"
ErrInvalidDifficulty == "invalid difficulty"
ErrWrongDifficulty == "wrong difficulty"
errInvalidTimestamp == "invalid timestamp"
errUnauthorizedSigner == "unauthorized signer"
errWrongCoinbase == "wrong coinbase address"
ErrRecentlySigned == "signed recently, must wait for others"
ErrUnknownAncestor == "unknown ancestor"
errInvalidSignature == "invalid signature"
errNoGenesisValidators == "no validator set for this chain only support Mainnet & Testnet"
errNoSCValidators == "No getSCValidators function supplied"
errNoFenixValidators == "No getFenixValidators function supplied"
errOracle == "contract call failed"
errSealingPaused == "sealing paused while waiting for transactions"
errSignFn == "signing failed"
Panic == "panic"

(***************************************************************************)
(* Sequences.                                                              *)
(***************************************************************************)
Range(s) == {s[i] : i \in 1..Len(s)}

Reverse(s) == [i \in 1..Len(s) |-> s[Len(s) + 1 - i]]

Min(a, b) == IF a < b THEN a ELSE b

\* the element of a one-element set
The(S) == CHOOSE x \in S : TRUE

(***************************************************************************)
(* Headers: extra-data, hashes and signatures.                             *)
(***************************************************************************)
NoSeal == [present |-> FALSE, by |-> "none", over |-> <<>>]
ZeroSeal == [present |-> TRUE, by |-> "zero", over |-> <<>>]

Sig(key, msg) == [present |-> TRUE, by |-> key, over |-> msg]

\* len(header.Extra)
ExtraLen(x) ==
    x.vanity + AddressLength * Len(x.signers) + x.slack
        + (IF x.seal.present THEN ExtraSeal ELSE 0)

\* header.Extra[:len(header.Extra)-crypto.SignatureLength] is out of range:
\* the slice expression panics
sliceOutOfRange(h) == ExtraLen(h.Extra) < ExtraSeal

\* an encoding that keeps the whole extra-data
encodeWholeHeader(h) ==
    IF sliceOutOfRange(h) THEN <<Panic>>
    ELSE <<h>>

\* encodeSigHeader: every field with the trailing 65 bytes of the extra-data
\* cut off; slicing panics when the extra-data is shorter than that
encodeSigHeader(h) ==
    IF sliceOutOfRange(h) THEN <<Panic>>
    ELSE <<[h EXCEPT !.Extra.seal = NoSeal]>>

\* the seal bytes as a hash sees them: the key, and whether the signed message
\* is the header's own encodeSigHeader (any other message recovers to junk)
SealDigest(h) ==
    [h.Extra.seal EXCEPT !.over =
        IF ~h.Extra.seal.present \/ h.Extra.seal.by = "zero" THEN <<>>
        ELSE IF h.Extra.seal.over = encodeSigHeader(h) THEN <<"self">>
        ELSE <<"other">>]

\* header.Hash(): every field, the seal included
Hash(h) == <<[h EXCEPT !.Extra.seal = SealDigest(h)]>>

\* SealHash: keccak256 of encodeSigHeader
SealHash(h) == encodeSigHeader(h)

\* consortiumRLP: the bytes handed to the signing function
consortiumRLP(h) == encodeSigHeader(h)

\* crypto.Ecrecover followed by the address derivation
RecoverAddress(msg, sig) ==
    IF sig.by = "zero" THEN [err |-> errInvalidSignature, addr |-> ZeroAddress]
    ELSE IF sig.over = msg THEN [err |-> OK, addr |-> sig.by]
    ELSE [err |-> OK, addr |-> JunkAddress]

\* a recovery that takes the header's word for who signed it
EcrecoverCoinbase(h, sigcache) ==
    [err |-> OK, addr |-> h.Coinbase, sigcache |-> sigcache]

\* Ecrecover(header, sigcache): the recovered signer and the cache afterwards
Ecrecover(h, sigcache) ==
    LET hash == Hash(h) IN
    IF hash \in DOMAIN sigcache
    THEN [err |-> OK, addr |-> sigcache[hash], sigcache |-> sigcache]
    ELSE IF ExtraLen(h.Extra) < ExtraSeal
    THEN [err |-> ErrMissingSignature, addr |-> ZeroAddress, sigcache |-> sigcache]
    ELSE LET r == RecoverAddress(SealHash(h), h.Extra.seal) IN
         IF r.err # OK
         THEN [err |-> r.err, addr |-> ZeroAddress, sigcache |-> sigcache]
         ELSE [err |-> OK, addr |-> r.addr,
               sigcache |-> (hash :> r.addr) @@ sigcache]

\* ExtractAddressFromBytes(header.Extra[extraVanity : len - ExtraSeal]):
\* the whole 20-byte records between the vanity and the seal
ExtractAddressFromBytes(x) == x.signers

\* the slice header.Extra[extraVanity : len(header.Extra) - ExtraSeal] is in range
ExtraSliceOK(x) == ExtraLen(x) >= extraVanity + ExtraSeal

(***************************************************************************)
(* params.ChainConfig: fork predicates.                                    *)
(***************************************************************************)
\* isForked(s, head): a fork scheduled at s is active at head; nil is Null
isForked(s, head) == IF s = Null \/ head = Null THEN FALSE ELSE s <= head

\* configNumEqual(x, y)
configNumEqual(x, y) ==
    IF x = Null THEN y = Null ELSE IF y = Null THEN FALSE ELSE x = y

IsFenix(cfg, num) == isForked(cfg.FenixBlock, num)

IsConsortiumV2(cfg, num) == isForked(cfg.ConsortiumV2Block, num)

\* the activation block and every block after it
IsOnConsortiumV2OrLater(cfg, num) == isForked(cfg.ConsortiumV2Block, num)

IsOnConsortiumV2(cfg, num) == configNumEqual(cfg.ConsortiumV2Block, num)

\* Petersburg active from its own block only
IsPetersburgOwnBlock(c, num) == isForked(c.PetersburgBlock, num)

\* IsPetersburg(num): a nil Petersburg block follows Constantinople
IsPetersburg(c, num) ==
    isForked(c.PetersburgBlock, num)
    \/ (c.PetersburgBlock = Null /\ isForked(c.ConstantinopleBlock, num))

\* Is<Fork>(num) for the fork of the block field f: IsHomestead, IsDAOFork,
\* IsEIP150, .. IsPrague
IsFork(c, f, num) ==
    IF f = "PetersburgBlock" THEN IsPetersburg(c, num) ELSE isForked(c[f], num)

(***************************************************************************)
(* The ChainHeaderReader.  ch is the canonical chain, ch[n + 1] the header *)
(* of block n, or a header of no number where the database holds no header *)
(* of block n (a chain synced from a checkpoint).  A lookup returns the set *)
(* of headers found (empty: nil).                                          *)
(***************************************************************************)
GetHeaderByNumber(ch, number) ==
    IF number >= 0 /\ number < Len(ch) /\ ch[number + 1].Number # Null
    THEN {ch[number + 1]} ELSE {}

GetHeader(ch, hash, number) ==
    {h \in GetHeaderByNumber(ch, number) : Hash(h) = hash}

(***************************************************************************)
(* The signer oracle.                                                      *)
(***************************************************************************)
MainnetValidators == <<"A", "B", "C">>
TestnetValidators == <<"D", "E">>

\* the two hard-coded lists taken for one another
getValidatorsFromGenesisSwapped(cfg) ==
    IF cfg.ChainID = 2020 THEN [err |-> OK, list |-> TestnetValidators]
    ELSE IF cfg.ChainID = 2021 THEN [err |-> OK, list |-> MainnetValidators]
    ELSE [err |-> errNoGenesisValidators, list |-> <<>>]

\* getValidatorsFromGenesis
getValidatorsFromGenesis(cfg) ==
    IF cfg.ChainID = 2020 THEN [err |-> OK, list |-> MainnetValidators]
    ELSE IF cfg.ChainID = 2021 THEN [err |-> OK, list |-> TestnetValidators]
    ELSE [err |-> errNoGenesisValidators, list |-> <<>>]

\* one injected contract reader: fn is FALSE when no function was supplied
CallOracle(o, missing) ==
    IF ~o.fn THEN [err |-> missing, list |-> <<>>]
    ELSE IF o.fails THEN [err |-> errOracle, list |-> <<>>]
    ELSE [err |-> OK, list |-> o.list]

\* getValidatorsFromContract(chain, number)
getValidatorsFromContract(cfg, orc, number) ==
    IF IsFenix(cfg, number)
    THEN CallOracle(orc.fenix, errNoFenixValidators)
    ELSE CallOracle(orc.sc, errNoSCValidators)

\* number / Epoch * Epoch
LastCheckpoint(cfg, number) == (number \div cfg.Epoch) * cfg.Epoch

\* getValidatorsFromLastCheckpoint(chain, number, recents): the signer list
\* embedded in the last checkpoint header, the genesis list for checkpoint 0
getValidatorsFromLastCheckpoint(cfg, ch, number, rcts) ==
    LET lastCheckpoint == LastCheckpoint(cfg, number)
        fromRecents == {i \in 1..Len(rcts) : rcts[i].Number = lastCheckpoint}
        found == IF fromRecents # {}
                 THEN {rcts[CHOOSE i \in fromRecents : \A j \in fromRecents : j <= i]}
                 ELSE GetHeaderByNumber(ch, lastCheckpoint)
    IN  IF lastCheckpoint = 0 THEN getValidatorsFromGenesis(cfg)
        ELSE IF found = {} THEN [err |-> Panic, list |-> <<>>]
        ELSE LET header == CHOOSE h \in found : TRUE IN
             IF ~ExtraSliceOK(header.Extra) THEN [err |-> Panic, list |-> <<>>]
             ELSE [err |-> OK, list |-> ExtractAddressFromBytes(header.Extra)]

\* a membership test that lets every signer through on an empty list
SignerInListOrNone(signer, validators) ==
    validators = <<>> \/ signer \in Range(validators)

\* SignerInList(signer, validators)
SignerInList(signer, validators) == signer \in Range(validators)

\* a turn counted from block 0 instead of from the last checkpoint
signerInTurnFromGenesis(cfg, signer, number, validators) ==
    validators[(number % Len(validators)) + 1] = signer

\* signerInTurn(signer, number, validators); the caller keeps validators
\* non-empty (the index is a remainder by its length)
signerInTurn(cfg, signer, number, validators) ==
    LET lastCheckpoint == LastCheckpoint(cfg, number)
        index == (number - lastCheckpoint) % Len(validators)
    IN  validators[index + 1] = signer

\* the two difficulties taken for one another
doCalcDifficultySwapped(cfg, signer, number, validators) ==
    IF signerInTurn(cfg, signer, number, validators) THEN diffNoTurn ELSE diffInTurn

\* doCalcDifficulty
doCalcDifficulty(cfg, signer, number, validators) ==
    IF signerInTurn(cfg, signer, number, validators) THEN diffInTurn ELSE diffNoTurn

(***************************************************************************)
(* Snapshots.                                                              *)
(***************************************************************************)
NoRecents == <<>>

\* newSnapshot(config, sigcache, number, hash, signers)
newSnapshot(number, hash, signers) ==
    [Number |-> number, Hash |-> hash, SignerSet |-> Range(signers),
     SignerList |-> signers, Recents |-> NoRecents]

NoSnapshot == newSnapshot(Null, ZeroHash, <<>>)

\* the recent-signer window of a signer list
Window(signers) == Len(signers) \div 2

\* one header folded onto a snapshot
applyHeader(cfg, snap, h, sigcache) ==
    LET number == h.Number
        rec == Ecrecover(h, sigcache)
        signer == rec.addr
        window == Window(snap.SignerList)
        recently == \E seen \in DOMAIN snap.Recents :
                        snap.Recents[seen] = signer /\ number - seen <= window
        kept == {seen \in DOMAIN snap.Recents : seen >= number - window}
        rcts == [seen \in kept \cup {number} |->
                    IF seen = number THEN signer ELSE snap.Recents[seen]]
        signers == ExtractAddressFromBytes(h.Extra)
    IN  IF rec.err # OK THEN [err |-> rec.err, snap |-> snap, sigcache |-> sigcache]
        ELSE IF signer \notin snap.SignerSet
        THEN [err |-> errUnauthorizedSigner, snap |-> snap, sigcache |-> rec.sigcache]
        ELSE IF recently
        THEN [err |-> ErrRecentlySigned, snap |-> snap, sigcache |-> rec.sigcache]
        ELSE IF number % cfg.Epoch = 0
        THEN [err |-> OK, sigcache |-> rec.sigcache,
              snap |-> [Number |-> number, Hash |-> Hash(h),
                        SignerSet |-> Range(signers), SignerList |-> signers,
                        Recents |-> NoRecents]]
        ELSE [err |-> OK, sigcache |-> rec.sigcache,
              snap |-> [snap EXCEPT !.Number = number, !.Hash = Hash(h),
                                    !.Recents = rcts]]

\* Snapshot.apply: a contiguous ascending run of headers folded in order
RECURSIVE apply(_, _, _, _)
apply(cfg, snap, headers, sigcache) ==
    IF headers = <<>> THEN [err |-> OK, snap |-> snap, sigcache |-> sigcache]
    ELSE The({IF r.err # OK THEN r
              ELSE apply(cfg, r.snap, Tail(headers), r.sigcache) :
                 r \in {applyHeader(cfg, snap, Head(headers), sigcache)}})

\* Snapshot.store / loadSnapshot: the store keyed by the snapshot's hash
store(db, snap) == (snap.Hash :> snap) @@ db

loadSnapshot(db, hash) ==
    IF hash \in DOMAIN db THEN [err |-> OK, snap |-> db[hash]]
    ELSE [err |-> "not found", snap |-> NoSnapshot]

(***************************************************************************)
(* Consortium.snapshot.  e is the engine's stores [recents, disk,          *)
(* signatures]; the result carries them as the call leaves them.           *)
(***************************************************************************)
\* a checkpoint trusted only above block 0
trustedCheckpointAboveZero(cfg, ch, number, headers) ==
    number # 0 /\ number % cfg.Epoch = 0
    /\ (Len(headers) > FullImmutabilityThreshold
        \/ GetHeaderByNumber(ch, number - 1) = {})

\* "If we're at the genesis, snapshot the initial state. Alternatively if
\* we're at a checkpoint block without a parent (light client CHT), or we
\* have piled up more headers than allowed to be reorged"
trustedCheckpoint(cfg, ch, number, headers) ==
    number = 0
    \/ (number % cfg.Epoch = 0
        /\ (Len(headers) > FullImmutabilityThreshold
            \/ GetHeaderByNumber(ch, number - 1) = {}))

\* the backward walk that looks for a snapshot to start from; its result
\* tells where it stopped: the number and hash it had come to and the parents
\* it had not consumed
RECURSIVE walk(_, _, _, _, _, _, _)
walk(cfg, ch, e, number, hash, parents, headers) ==
    LET loaded == loadSnapshot(e.disk, hash)
        trusted == trustedCheckpoint(cfg, ch, number, headers)
        at == [number |-> number, hash |-> hash, parents |-> parents]
        cpHeader == GetHeaderByNumber(ch, number)
        fromChain == GetHeader(ch, hash, number)
    IN  IF hash \in DOMAIN e.recents
        THEN [err |-> OK, snap |-> e.recents[hash], headers |-> headers, disk |-> e.disk, at |-> at]
        ELSE IF number % cfg.Epoch = 0 /\ loaded.err = OK
        THEN [err |-> OK, snap |-> loaded.snap, headers |-> headers, disk |-> e.disk, at |-> at]
        ELSE IF trusted /\ cpHeader # {}
        THEN LET validators == getValidatorsFromGenesis(cfg)
                 s == newSnapshot(number, Hash(CHOOSE h \in cpHeader : TRUE),
                                  validators.list)
             IN  IF validators.err # OK
                 THEN [err |-> validators.err, snap |-> NoSnapshot,
                       headers |-> headers, disk |-> e.disk, at |-> at]
                 ELSE [err |-> OK, snap |-> s, headers |-> headers,
                       disk |-> store(e.disk, s), at |-> at]
        ELSE IF Len(parents) > 0
        THEN LET header == parents[Len(parents)] IN
             IF Hash(header) # hash \/ header.Number # number
             THEN [err |-> ErrUnknownAncestor, snap |-> NoSnapshot,
                   headers |-> headers, disk |-> e.disk, at |-> at]
             ELSE walk(cfg, ch, e, number - 1, header.ParentHash,
                       SubSeq(parents, 1, Len(parents) - 1), Append(headers, header))
        ELSE IF fromChain = {}
        THEN [err |-> ErrUnknownAncestor, snap |-> NoSnapshot,
              headers |-> headers, disk |-> e.disk, at |-> at]
        ELSE The({walk(cfg, ch, e, number - 1, header.ParentHash, parents,
                       Append(headers, header)) : header \in fromChain})

\* a cache that keeps the signer list and forgets the recent signers
recentsAddBare(rcts, snap) == (snap.Hash :> [snap EXCEPT !.Recents = NoRecents]) @@ rcts

\* a cache that files every snapshot under the zero hash
recentsAddZero(rcts, snap) == (ZeroHash :> snap) @@ rcts

\* c.recents.Add(snap.Hash, snap)
recentsAdd(rcts, snap) == (snap.Hash :> snap) @@ rcts

\* every snapshot that headers were applied to is saved
anySnapshot(cfg, snap, headers) == Len(headers) > 0

\* "If we've generated a new checkpoint snapshot, save to disk"
newCheckpointSnapshot(cfg, snap, headers) ==
    snap.Number % cfg.Epoch = 0 /\ Len(headers) > 0

\* the end of Consortium.snapshot: the headers w collected are applied to the
\* snapshot w found, and the result is cached and, on a checkpoint, persisted
snapshotApply(cfg, e, w) ==
    The({IF a.err # OK
         THEN [err |-> a.err, snap |-> NoSnapshot,
               e |-> [e EXCEPT !.disk = w.disk, !.signatures = a.sigcache]]
         ELSE [err |-> OK, snap |-> a.snap,
               e |-> [recents |-> recentsAdd(e.recents, a.snap),
                      disk |-> IF newCheckpointSnapshot(cfg, a.snap, w.headers)
                               THEN store(w.disk, a.snap) ELSE w.disk,
                      signatures |-> a.sigcache]] :
            a \in {apply(cfg, w.snap, Reverse(w.headers), e.signatures)}})

snapshot(cfg, ch, e, number, hash, parents) ==
    The({IF w.err # OK THEN [err |-> w.err, snap |-> NoSnapshot, e |-> e]
         ELSE snapshotApply(cfg, e, w) :
            w \in {walk(cfg, ch, e, number, hash, parents, <<>>)}})

(***************************************************************************)
(* Header verification.  Every operator returns the error, the engine's    *)
(* stores as the call leaves them, and the snapshot verifySeal worked on.  *)
(***************************************************************************)
Ret(err, e, snap) == [err |-> err, e |-> e, snap |-> snap]

\* verifySeal(chain, header, parents)
\* verifySeal once the signer is recovered: the coinbase, the authorization
\* and the difficulty of the turn; e is the engine's stores after the recovery
verifySigner(cfg, e, snap, header, signer) ==
    LET validators == snap.SignerList
        inturn == signerInTurn(cfg, signer, header.Number, validators)
    IN  IF signer # header.Coinbase THEN Ret(errWrongCoinbase, e, snap)
        ELSE IF signer \notin snap.SignerSet THEN Ret(errUnauthorizedSigner, e, snap)
        ELSE IF validators = <<>> \/ header.Difficulty = Null THEN Ret(Panic, e, snap)
        ELSE IF inturn /\ header.Difficulty # diffInTurn THEN Ret(ErrWrongDifficulty, e, snap)
        ELSE IF ~inturn /\ header.Difficulty # diffNoTurn THEN Ret(ErrWrongDifficulty, e, snap)
        ELSE Ret(OK, e, snap)

\* verifySeal once the snapshot s of the parent is retrieved
verifySealOn(cfg, s, header) ==
    The({IF rec.err # OK
         THEN Ret(rec.err, [s.e EXCEPT !.signatures = rec.sigcache], s.snap)
         ELSE verifySigner(cfg, [s.e EXCEPT !.signatures = rec.sigcache], s.snap,
                           header, rec.addr) :
            rec \in {Ecrecover(header, s.e.signatures)}})

\* verifySeal(chain, header, parents); a nil number or difficulty is a nil
\* pointer dereference
verifySeal(cfg, ch, e, header, parents) ==
    IF header.Number = Null THEN Ret(Panic, e, NoSnapshot)
    ELSE IF header.Number = 0 THEN Ret(ErrUnknownBlock, e, NoSnapshot)
    ELSE The({IF s.err # OK THEN Ret(s.err, s.e, NoSnapshot)
              ELSE verifySealOn(cfg, s, header) :
                 s \in {snapshot(cfg, ch, e, header.Number - 1, header.ParentHash,
                                 parents)}})

\* CompareSignersLists(list1, list2): the same addresses, in any order
CompareSignersLists(list1, list2) == Range(list1) = Range(list2)

\* the checkpoint's own number instead of the block before it
CheckpointOracleBlockSelf(number) == number

\* the block whose signer set the checkpoint check of verifyCascadingFields reads
CheckpointOracleBlock(number) == number - 1

\* the checkpoint branch of verifyCascadingFields
verifyCheckpoint(cfg, ch, e, orc, header, parents) ==
    LET number == header.Number
        signers == getValidatorsFromContract(cfg, orc, CheckpointOracleBlock(number))
        checkpointHeaders == ExtractAddressFromBytes(header.Extra)
    IN  IF cfg.skipCheckpointHeaderCheck THEN verifySeal(cfg, ch, e, header, parents)
        ELSE IF signers.err # OK THEN Ret(signers.err, e, NoSnapshot)
        ELSE IF ~CompareSignersLists(checkpointHeaders, signers.list)
        THEN Ret(ErrInvalidCheckpointSigners, e, NoSnapshot)
        ELSE verifySeal(cfg, ch, e, header, parents)

\* a parent always looked up in the chain, the parents list ignored
ResolveParentFromChain(ch, header, parents) ==
    GetHeader(ch, header.ParentHash, header.Number - 1)

\* the parent verifyCascadingFields checks the header against
ResolveParent(ch, header, parents) ==
    IF Len(parents) > 0 THEN {parents[Len(parents)]}
    ELSE GetHeader(ch, header.ParentHash, header.Number - 1)

\* parent.Time + Period > header.Time
TooEarly(cfg, parent, header) == parent.Time + cfg.Period > header.Time

\* block 0 handed on to the seal verification like every other block
verifyCascadingFieldsSealed(cfg, ch, e, orc, header, parents) ==
    LET number == header.Number
        found == ResolveParent(ch, header, parents)
        parent == CHOOSE h \in found : TRUE
    IN  IF number = 0 THEN verifySeal(cfg, ch, e, header, parents)
        ELSE IF found = {} \/ parent.Number # number - 1 \/ Hash(parent) # header.ParentHash
        THEN Ret(ErrUnknownAncestor, e, NoSnapshot)
        ELSE IF TooEarly(cfg, parent, header) THEN Ret(errInvalidTimestamp, e, NoSnapshot)
        ELSE IF number % cfg.Epoch # 0 THEN verifySeal(cfg, ch, e, header, parents)
        ELSE verifyCheckpoint(cfg, ch, e, orc, header, parents)

\* verifyCascadingFields(chain, header, parents)
verifyCascadingFields(cfg, ch, e, orc, header, parents) ==
    LET number == header.Number
        found == ResolveParent(ch, header, parents)
        parent == CHOOSE h \in found : TRUE
    IN  IF number = 0 THEN Ret(OK, e, NoSnapshot)
        ELSE IF found = {} \/ parent.Number # number - 1 \/ Hash(parent) # header.ParentHash
        THEN Ret(ErrUnknownAncestor, e, NoSnapshot)
        ELSE IF TooEarly(cfg, parent, header) THEN Ret(errInvalidTimestamp, e, NoSnapshot)
        ELSE IF number % cfg.Epoch # 0 THEN verifySeal(cfg, ch, e, header, parents)
        ELSE verifyCheckpoint(cfg, ch, e, orc, header, parents)

\* the checks of VerifyHeaderAndParents on the signer bytes of the extra-data
verifySignerBytes(cfg, header) ==
    LET checkpoint == header.Number % cfg.Epoch = 0
        signersBytes == ExtraLen(header.Extra) - extraVanity - ExtraSeal
    IN  IF ~checkpoint /\ signersBytes # 0 THEN errExtraSigners
        ELSE IF checkpoint /\ signersBytes % AddressLength # 0
        THEN ErrInvalidCheckpointSigners
        ELSE OK

\* the standalone checks with the mix digest looked at before the extra-data
verifyStandaloneDigestFirst(cfg, now, header) ==
    IF header.Number = Null THEN ErrUnknownBlock
    ELSE IF header.Time > now THEN ErrFutureBlock
    ELSE IF header.Nonce # emptyNonce THEN errInvalidNonce
    ELSE IF header.MixDigest # 0 THEN ErrInvalidMixDigest
    ELSE IF ExtraLen(header.Extra) < extraVanity THEN ErrMissingVanity
    ELSE IF ExtraLen(header.Extra) < extraVanity + ExtraSeal THEN ErrMissingSignature
    ELSE IF verifySignerBytes(cfg, header) # OK THEN verifySignerBytes(cfg, header)
    ELSE IF header.UncleHash # uncleHash THEN ErrInvalidUncleHash
    ELSE IF header.Number > 0 /\ header.Difficulty \notin {diffInTurn, diffNoTurn}
    THEN ErrInvalidDifficulty
    ELSE OK

\* the standalone checks of VerifyHeaderAndParents, in order
verifyStandalone(cfg, now, header) ==
    IF header.Number = Null THEN ErrUnknownBlock
    ELSE IF header.Time > now THEN ErrFutureBlock
    ELSE IF header.Nonce # emptyNonce THEN errInvalidNonce
    ELSE IF ExtraLen(header.Extra) < extraVanity THEN ErrMissingVanity
    ELSE IF ExtraLen(header.Extra) < extraVanity + ExtraSeal THEN ErrMissingSignature
    ELSE IF verifySignerBytes(cfg, header) # OK THEN verifySignerBytes(cfg, header)
    ELSE IF header.MixDigest # 0 THEN ErrInvalidMixDigest
    ELSE IF header.UncleHash # uncleHash THEN ErrInvalidUncleHash
    ELSE IF header.Number > 0 /\ header.Difficulty \notin {diffInTurn, diffNoTurn}
    THEN ErrInvalidDifficulty
    ELSE OK

\* VerifyHeaderAndParents returning the error of the standalone checks only
\* after the work of verifyCascadingFields
VerifyHeaderAndParentsLate(cfg, ch, e, orc, now, header, parents) ==
    LET err == verifyStandalone(cfg, now, header)
        r == verifyCascadingFields(cfg, ch, e, orc, header, parents)
    IN  IF err # OK THEN Ret(err, r.e, r.snap) ELSE r

\* VerifyHeaderAndParents(chain, header, parents)
VerifyHeaderAndParents(cfg, ch, e, orc, now, header, parents) ==
    LET err == verifyStandalone(cfg, now, header) IN
    IF err # OK THEN Ret(err, e, NoSnapshot)
    ELSE verifyCascadingFields(cfg, ch, e, orc, header, parents)

(***************************************************************************)
(* The inputs of the exploration: configurations, oracle answers, headers. *)
(***************************************************************************)
\* params.ChainConfig with its ConsortiumConfig, and the engine's flag
Configs ==
    { [ChainID |-> 2020, Epoch |-> 2, Period |-> 1, FenixBlock |-> 2,
       ConsortiumV2Block |-> Null, skipCheckpointHeaderCheck |-> FALSE],
      [ChainID |-> 2020, Epoch |-> 3, Period |-> 2, FenixBlock |-> Null,
       ConsortiumV2Block |-> 4, skipCheckpointHeaderCheck |-> TRUE] }

\* New(): a zero Epoch becomes the default
New(chainConfig) ==
    IF chainConfig.Epoch = 0 THEN [chainConfig EXCEPT !.Epoch = epochLength]
    ELSE chainConfig

BigList == <<"A", "B", "C", "D", "E", "F", "G", "H">>

\* signer lists a checkpoint header may embed
SignerLists == {MainnetValidators, BigList, <<>>}

Reader(list) == [fn |-> TRUE, fails |-> FALSE, list |-> list]
NoReader == [fn |-> FALSE, fails |-> FALSE, list |-> <<>>]
FailingReader == [fn |-> TRUE, fails |-> TRUE, list |-> <<>>]

NoOracle == [sc |-> NoReader, fenix |-> NoReader]

\* what getSCValidators and getFenixValidators are, and answer, during one
\* call: the contracts report the signers in an order of their own
OracleStates ==
    {[sc |-> Reader(Reverse(l)), fenix |-> Reader(Reverse(l))] : l \in SignerLists}
    \cup {[sc |-> Reader(Reverse(BigList)), fenix |-> Reader(MainnetValidators)],
          [sc |-> NoReader, fenix |-> FailingReader],
          [sc |-> FailingReader, fenix |-> NoReader]}

\* the keys that author blocks
Authors == {"A", "B", "D"}

NewExtra(vanity, signers, slack, seal) ==
    [vanity |-> vanity, signers |-> signers, slack |-> slack, seal |-> seal]

NewHeader(number, parentHash, coinbase, difficulty, time, extra) ==
    [Number |-> number, ParentHash |-> parentHash, UncleHash |-> uncleHash,
     Coinbase |-> coinbase, Difficulty |-> difficulty, Time |-> time,
     Extra |-> extra, MixDigest |-> 0, Nonce |-> emptyNonce]

GenesisHeader ==
    NewHeader(0, ZeroHash, ZeroAddress, 1, 0, NewExtra(extraVanity, <<>>, 0, ZeroSeal))

NilHeader ==
    NewHeader(Null, ZeroHash, ZeroAddress, Null, 0, NewExtra(0, <<>>, 0, NoSeal))

\* the header with its last 65 bytes overwritten by key's signature of it
WithSeal(h, key) == [h EXCEPT !.Extra.seal = Sig(key, SealHash(h))]

Tip(ch) == ch[Len(ch)]

OnChain(ch) == {Hash(h) : h \in Range(ch)}

\* a header on top of parent, before it is signed
Unsigned(cfg, parent, coinbase, difficulty, signers) ==
    NewHeader(parent.Number + 1, Hash(parent), coinbase, difficulty,
              parent.Time + cfg.Period, NewExtra(extraVanity, signers, 0, ZeroSeal))

\* the signer lists tried in the extra-data of block number
ListsAt(cfg, number) ==
    IF number % cfg.Epoch = 0 THEN SignerLists ELSE {<<>>}

\* well-formed headers on top of parent, signed by their coinbase
Plain(cfg, parent) ==
    {WithSeal(Unsigned(cfg, parent, a, d, l), a) :
        a \in Authors, d \in {diffInTurn, diffNoTurn},
        l \in ListsAt(cfg, parent.Number + 1)}

\* one field of a header changed before it is signed
Mutations(h) ==
    {[h EXCEPT !.Number = Null],
     [h EXCEPT !.Number = h.Number + 1],
     [h EXCEPT !.ParentHash = ZeroHash],
     [h EXCEPT !.Time = h.Time - 1],
     [h EXCEPT !.Nonce = 1],
     [h EXCEPT !.MixDigest = 1],
     [h EXCEPT !.UncleHash = "other"],
     [h EXCEPT !.Difficulty = Null],
     [h EXCEPT !.Difficulty = 5],
     [h EXCEPT !.Extra.slack = 1],
     [h EXCEPT !.Extra.signers = IF h.Extra.signers = <<>> THEN <<"A">> ELSE <<>>]}

\* headers that fail, or may fail, one check each
Odd(cfg, parent) ==
    LET u == Unsigned(cfg, parent, "A", diffInTurn, <<>>)
        v == Unsigned(cfg, parent, "B", diffNoTurn, MainnetValidators)
    IN  {WithSeal(m, m.Coinbase) : m \in Mutations(u) \cup Mutations(v)}
        \cup {WithSeal(u, "B"), WithSeal(v, "A"), u,
              [WithSeal(u, "A") EXCEPT !.Coinbase = "B"],
              [u EXCEPT !.Extra = NewExtra(extraVanity - 1, <<>>, 0, NoSeal)],
              [u EXCEPT !.Extra = NewExtra(extraVanity, <<>>, 0, NoSeal)]}

\* headers on top of parent with any number of their fields out of order:
\* the number, the difficulty, the time, the nonce, the mix digest, the uncle
\* hash and the length of the extra-data
Flawed(cfg, parent) ==
    {[NewHeader(n, Hash(parent), "A", d, parent.Time + cfg.Period + late,
                NewExtra(vanity, l, slack, seal))
         EXCEPT !.Nonce = nonce, !.MixDigest = mix, !.UncleHash = uncle] :
        n \in {Null, 0, 1, 2}, d \in {Null, diffNoTurn, 5, diffInTurn},
        late \in {0, 1}, nonce \in {emptyNonce, 1}, mix \in {0, 1},
        uncle \in {uncleHash, "other"}, vanity \in {extraVanity - 1, extraVanity},
        l \in {<<>>, <<"A">>}, slack \in {0, 1}, seal \in {NoSeal, ZeroSeal}}

\* a checkpoint header above block 0
IsCheckpoint(cfg, h) == h.Number > 0 /\ h.Number % cfg.Epoch = 0

\* the oracle answers tried with the header h
OraclesFor(cfg, h) ==
    IF IsCheckpoint(cfg, h) /\ ~cfg.skipCheckpointHeaderCheck
    THEN OracleStates ELSE {NoOracle}

\* one verification: the header, time.Now().Unix(), the oracle during the call
Probe(cfg, h, now) == {[h |-> h, now |-> now, oracle |-> o] : o \in OraclesFor(cfg, h)}

\* the verifications of such headers at the time their parent allows
FlawedProbes(cfg, ch) ==
    UNION {Probe(cfg, h, Tip(ch).Time + cfg.Period) : h \in Flawed(cfg, Tip(ch))}

\* verifications of well-formed headers on top of the chain, and of its tip
Valid(cfg, ch) ==
    UNION {Probe(cfg, h, h.Time) : h \in Plain(cfg, Tip(ch)) \cup {Tip(ch), ch[1]}}

\* the verifications a caller may ask for on top of the chain ch
Candidates(cfg, ch) ==
    Valid(cfg, ch)
    \cup UNION {Probe(cfg, h, h.Time) : h \in Odd(cfg, Tip(ch))}
    \cup UNION {Probe(cfg, h, now) :
                   h \in {WithSeal(Unsigned(cfg, Tip(ch), "A", d, <<>>), "A") :
                             d \in {diffInTurn, diffNoTurn}},
                   now \in {Tip(ch).Time, Tip(ch).Time + cfg.Period + 1}}

(***************************************************************************)
(* The state.                                                              *)
(***************************************************************************)
Engine == [recents |-> recents, disk |-> disk, signatures |-> signatures]

EmptyMap == <<>>

\* no backward walk to tell of
NoWalk == [err |-> OK, number |-> Null, hash |-> ZeroHash, parents |-> <<>>]

Call(op, header, parents, now, orc, ret) ==
    [op |-> op, header |-> header, parents |-> parents, now |-> now,
     oracle |-> orc, err |-> ret.err, snap |-> ret.snap,
     touched |-> ret.e # Engine, hashes |-> <<>>, difficulty |-> Null,
     number |-> Null, hash |-> ZeroHash, applied |-> 0, stored |-> {},
     val |-> ZeroAddress, given |-> <<>>, vanity |-> <<>>, prepared |-> FALSE,
     walk |-> NoWalk]

NoCall == Call("none", NilHeader, <<>>, 0, NoOracle, Ret(OK, Engine, NoSnapshot))

\* VerifyHeaders before it is called: no emitter goroutine, no channels
NoBatch ==
    [pc |-> "none", headers |-> <<>>, i |-> 0, err |-> OK, results |-> <<>>,
     aborted |-> FALSE, cut |-> 0, calls |-> <<>>]

\* the engine as New() leaves it: no signer, no signing function
NoCredentials == [val |-> ZeroAddress, signFn |-> "nil"]

\* Seal before it is called
NoSealing ==
    [pc |-> "none", header |-> NilHeader, now |-> 0, rnd |-> 0,
     signer |-> ZeroAddress, signFn |-> "nil", err |-> OK, snap |-> NoSnapshot,
     delay |-> 0, stopped |-> FALSE, stopFirst |-> FALSE, published |-> <<>>,
     member |-> ZeroAddress, block |-> NilHeader, transactions |-> 0]

NoWrapUp == [err |-> OK, left |-> 0, gas |-> 0]

NoFinalize ==
    [op |-> "none", number |-> 0, given |-> 0, calls |-> 0, wrap |-> NoWrapUp,
     err |-> OK, block |-> FALSE, rooted |-> FALSE, wrapped |-> {},
     pc |-> "done", tasks |-> {}, wg |-> 0, state |-> 0, hroot |-> Null,
     rootHash |-> Null, blk |-> [Root |-> Null, built |-> FALSE]]

\* a nil *ConfigCompatError
NoCompatError == [What |-> "nil", StoredConfig |-> Null, NewConfig |-> Null, RewindTo |-> 0]

NoCheck ==
    [op |-> "none", pc |-> "done", c |-> <<>>, newcfg |-> <<>>, head |-> 0,
     bhead |-> 0, lasterr |-> NoCompatError, iter |-> 0, err |-> NoCompatError,
     order |-> OK, s |-> Null, n |-> Null, fork |-> "none", forked |-> FALSE]

\* no call is in progress, no emitter and no sealing goroutine is running
Idle == last.op = "none" /\ vh.pc = "none" /\ sl.pc = "none"

\* the engine as New() leaves it, for one of the configurations configs
InitOf(configs) ==
    /\ config \in {New(c) : c \in configs}
    /\ chain = <<GenesisHeader>>
    /\ recents = EmptyMap
    /\ disk = EmptyMap
    /\ signatures = EmptyMap
    /\ val = NoCredentials
    /\ last = NoCall
    /\ vh = NoBatch
    /\ sl = NoSealing
    /\ fz = NoFinalize
    /\ cc = NoCheck

Init == InitOf(Configs)

\* the stores of the engine after a call that left them as e
Stores(e) ==
    /\ recents' = e.recents
    /\ disk' = e.disk
    /\ signatures' = e.signatures

\* VerifyHeader(chain, header, seal), for one of the verifications in probes
VerifyHeaderOf(probes) ==
    /\ Idle
    /\ \E p \in probes :
           \E r \in {VerifyHeaderAndParents(config, chain, Engine, p.oracle, p.now,
                                            p.h, <<>>)} :
               /\ Stores(r.e)
               /\ last' = Call("VerifyHeader", p.h, <<>>, p.now, p.oracle, r)
    /\ UNCHANGED <<config, chain, val, vh, sl, fz, cc>>

VerifyHeader == VerifyHeaderOf(Candidates(config, chain))

\* VerifySeal(chain, header)
VerifySeal ==
    /\ Idle
    /\ \E h \in {p.h : p \in Candidates(config, chain)} :
           \E r \in {verifySeal(config, chain, Engine, h, <<>>)} :
               /\ Stores(r.e)
               /\ last' = Call("VerifySeal", h, <<>>, 0, NoOracle, r)
    /\ UNCHANGED <<config, chain, val, vh, sl, fz, cc>>

\* the (number, hash) pairs a snapshot is asked for: every block of the
\* chain, block 0 under another hash, the number after the tip under a hash
\* no block has, and the same number under the hash of the tip
SnapshotKeys(ch) ==
    {<<h.Number, Hash(h)>> : h \in Range(ch)}
    \cup {<<0, ZeroHash>>, <<Len(ch), ZeroHash>>, <<Len(ch), Hash(Tip(ch))>>}

\* the snapshots a lookup that left the database as after has written to it
Written(before, after) ==
    {h \in DOMAIN after : h \notin DOMAIN before \/ after[h] # before[h]}

\* a header the database does not hold, on top of the chain
Fresh(cfg, ch) ==
    WithSeal(Unsigned(cfg, Tip(ch), "A", diffNoTurn,
                      IF Len(ch) % cfg.Epoch = 0 THEN MainnetValidators ELSE <<>>),
             "A")

\* the parents lists handed to the lookup: none, the tip, the tip below block
\* 0 and below its own parent, a header not in the database, alone and on
\* top of the tip
SomeParents(ch) ==
    {<<>>, <<Tip(ch)>>, <<ch[1], Tip(ch)>>, <<ch[IF Len(ch) > 1 THEN Len(ch) - 1 ELSE 1], Tip(ch)>>,
     <<Fresh(config, ch)>>, <<Tip(ch), Fresh(config, ch)>>}

\* the pairs asked for with them: those of SnapshotKeys and the new header
KeysOver(ch) ==
    SnapshotKeys(ch) \cup {<<Len(ch), Hash(Fresh(config, ch))>>}

\* GetSnapshot(chain, number, hash, parents): c.snapshot from outside
GetSnapshotOf(keys, lists) ==
    /\ Idle
    /\ \E k \in keys, parents \in lists :
          \E w \in {walk(config, chain, Engine, k[1], k[2], parents, <<>>)} :
          \E r \in {snapshot(config, chain, Engine, k[1], k[2], parents)} :
             /\ Stores(r.e)
             /\ last' = [Call("GetSnapshot", NilHeader, parents, 0, NoOracle, r)
                            EXCEPT !.number = k[1], !.hash = k[2],
                                   !.applied = Len(w.headers),
                                   !.stored = Written(disk, r.e.disk),
                                   !.walk = [err |-> w.err, number |-> w.at.number,
                                             hash |-> w.at.hash,
                                             parents |-> w.at.parents]]
    /\ UNCHANGED <<config, chain, val, vh, sl, fz, cc>>

\* GetSnapshot(chain, number, hash, nil)
GetSnapshot == GetSnapshotOf(SnapshotKeys(chain), {<<>>})

\* GetSnapshot(chain, number, hash, parents)
GetSnapshotWithParents == GetSnapshotOf(KeysOver(chain), SomeParents(chain))

\* the host inserts the header it has just verified on top of the chain
InsertHeader ==
    /\ last.op = "VerifyHeader" /\ last.err = OK
    /\ last.header.Number = Len(chain) /\ Len(chain) <= MaxHeight
    /\ chain' = Append(chain, last.header)
    /\ last' = NoCall
    /\ UNCHANGED <<config, recents, disk, signatures, val, vh, sl, fz, cc>>

\* every entry of the engine's stores is about a header of the chain
Settled ==
    DOMAIN recents \cup DOMAIN disk \cup DOMAIN signatures \subseteq OnChain(chain)

\* the call returns to the host, which goes on to its next call; the
\* exploration stops at a call that has cached an entry about a header that
\* is not on the chain
Return ==
    /\ ~Idle /\ Settled
    /\ vh.pc \in {"none", "done"} /\ sl.pc \in {"none", "returned", "done"}
    /\ last' = NoCall
    /\ vh' = NoBatch
    /\ sl' = NoSealing
    /\ UNCHANGED <<config, chain, recents, disk, signatures, val, fz, cc>>

\* the node restarts: New() allocates empty caches over the same database
Restart ==
    /\ Idle
    /\ recents' = EmptyMap /\ signatures' = EmptyMap
    /\ UNCHANGED <<config, chain, disk, val, last, vh, sl, fz, cc>>

(***************************************************************************)
(* VerifyHeaders: the emitter goroutine and its two channels.  vh.i is the *)
(* loop index, vh.err the result waiting to be sent, vh.results everything *)
(* sent on the results channel so far (its buffer holds the whole batch,   *)
(* so a send never waits for the receiver), vh.aborted whether the caller  *)
(* has closed the abort channel.  vh.calls lists the verifications the     *)
(* emitter has made and vh.cut how many items had been taken up, the one   *)
(* in progress included, when abort was closed.                            *)
(***************************************************************************)
\* the signer lists the headers of a batch embed at block number
BatchLists(cfg, number) ==
    IF number % cfg.Epoch = 0 THEN {MainnetValidators} ELSE {<<>>}

\* the oracle answers tried with the header h of a batch
BatchOracles(cfg, h) ==
    IF IsCheckpoint(cfg, h) /\ ~cfg.skipCheckpointHeaderCheck
    THEN {[sc |-> Reader(Reverse(MainnetValidators)),
           fenix |-> Reader(Reverse(MainnetValidators))],
          [sc |-> Reader(Reverse(BigList)), fenix |-> Reader(MainnetValidators)]}
    ELSE {NoOracle}

\* the headers a batch goes on with on top of parent
BatchItems(cfg, parent) ==
    {WithSeal(Unsigned(cfg, parent, ad[1], ad[2], l), ad[1]) :
        ad \in {<<"A", diffInTurn>>, <<"B", diffNoTurn>>, <<"B", diffInTurn>>},
        l \in BatchLists(cfg, parent.Number + 1)}
    \cup {WithSeal([Unsigned(cfg, parent, "B", diffInTurn, <<>>)
                        EXCEPT !.Time = @ - 1], "B")}

\* the batches of at most n headers a caller may pass on top of the chain:
\* each header on top of the one before it, or once more on top of the tip
RECURSIVE Batches(_, _, _)
Batches(cfg, ch, n) ==
    IF n = 0 THEN {<<>>}
    ELSE LET shorter == Batches(cfg, ch, n - 1)
             longest == {b \in shorter : Len(b) = n - 1}
             top(b) == IF b = <<>> THEN Tip(ch) ELSE b[Len(b)]
         IN  shorter \cup
             {Append(b, WithSeal(Unsigned(cfg, Tip(ch), "B", diffInTurn, <<>>), "B")) :
                 b \in longest}
             \cup UNION {{Append(b, h) : h \in BatchItems(cfg, top(b))} :
                            b \in longest}

\* a header passed among its own parents
ParentsSkipping(headers, i) == SubSeq(headers, 1, i + 1)

\* headers[:i]
ParentsOf(headers, i) == SubSeq(headers, 1, i)

\* VerifyHeaders(chain, headers, seals): the channels are made and the
\* emitter is started; an empty batch ends the emitter's loop at once
VerifyHeaders ==
    /\ Idle
    /\ \E batch \in Batches(config, chain,
                            Min(MaxBatch, MaxHeight + 1 - Len(chain))) :
           vh' = [NoBatch EXCEPT !.headers = batch,
                                 !.pc = IF batch = <<>> THEN "done" ELSE "verify"]
    /\ UNCHANGED <<config, chain, recents, disk, signatures, val, last, sl, fz, cc>>

\* the emitter verifies headers[i] with headers[:i] as its parents
EmitterVerify ==
    /\ vh.pc = "verify"
    /\ LET header == vh.headers[vh.i + 1]
           parents == ParentsOf(vh.headers, vh.i)
       IN  \E orc \in BatchOracles(config, header) :
           \E r \in {VerifyHeaderAndParents(config, chain, Engine, orc, header.Time,
                                            header, parents)} :
               /\ Stores(r.e)
               /\ last' = Call("VerifyHeaders", header, parents, header.Time, orc, r)
               /\ vh' = [vh EXCEPT !.pc = "select", !.err = r.err,
                                   !.calls = Append(@, [header |-> header,
                                                        parents |-> parents,
                                                        err |-> r.err])]
    /\ UNCHANGED <<config, chain, val, sl, fz, cc>>

\* the emitter's select: the send on results is always ready; once abort is
\* closed the receive from it is ready too, and select takes either
EmitterSelect ==
    /\ vh.pc = "select"
    /\ \/ vh' = [vh EXCEPT !.results = Append(@, vh.err), !.i = @ + 1,
                            !.pc = IF vh.i + 1 = Len(vh.headers)
                                   THEN "done" ELSE "verify"]
       \/ /\ vh.aborted
          /\ vh' = [vh EXCEPT !.pc = "done"]
    /\ UNCHANGED <<config, chain, recents, disk, signatures, val, last, sl, fz, cc>>

\* the caller closes the abort channel
Abort ==
    /\ vh.pc # "none" /\ ~vh.aborted
    /\ vh' = [vh EXCEPT !.aborted = TRUE, !.cut = vh.i + 1]
    /\ UNCHANGED <<config, chain, recents, disk, signatures, val, last, sl, fz, cc>>

\* how many results, from the first on, report no error
RECURSIVE AcceptedPrefix(_)
AcceptedPrefix(results) ==
    IF results = <<>> \/ Head(results) # OK THEN 0
    ELSE 1 + AcceptedPrefix(Tail(results))

\* the emitter has ended: the host inserts the headers accepted so far
InsertHeaders ==
    /\ vh.pc = "done" /\ AcceptedPrefix(vh.results) > 0
    /\ chain' = chain \o SubSeq(vh.headers, 1, AcceptedPrefix(vh.results))
    /\ last' = NoCall
    /\ vh' = NoBatch
    /\ UNCHANGED <<config, recents, disk, signatures, val, sl, fz, cc>>

(***************************************************************************)
(* Authorize and Seal.  sl.pc follows the Seal call ("loaded": the          *)
(* credentials are read, "returned": it returned an error) and then its    *)
(* goroutine ("spawned": started, "parked": waiting in the first select,   *)
(* "publish": past it, "done").  sl.stopped tells whether the caller has   *)
(* closed the stop channel, sl.stopFirst whether it did so before the      *)
(* goroutine got past the first select, sl.published what was sent on the  *)
(* results channel.                                                        *)
(***************************************************************************)
\* the credentials Authorize is called with: a signing function holds the
\* key of its signer, or fails
Credentials ==
    {[val |-> a, signFn |-> a] : a \in Authors}
    \cup {[val |-> "A", signFn |-> "failing"]}

\* Authorize(signer, signFn, signTxFn)
Authorize ==
    /\ Idle \/ sl.pc = "loaded"
    /\ \E c \in Credentials : val' = c /\ c # val
    /\ UNCHANGED <<config, chain, recents, disk, signatures, last, vh, sl, fz, cc>>

\* a vanity that is cut to 32 bytes and never filled up
PrepareVanityCut(bytes) == SubSeq(bytes, 1, Min(Len(bytes), extraVanity))

\* the first 32 bytes of the extra-data Prepare is given, with zero bytes
\* appended to one that is shorter
PrepareVanity(bytes) ==
    [i \in 1..extraVanity |-> IF i <= Len(bytes) THEN bytes[i] ELSE 0]

\* Prepare(chain, header): the error and the header as Prepare leaves it.
\* number-1 of block 0 wraps around to a checkpoint the chain does not hold,
\* whose header is a nil pointer; doCalcDifficulty takes a remainder by
\* len(validators)
PrepareOf(cfg, ch, cval, orc, header, now) ==
    LET number == header.Number
        named == [header EXCEPT !.Coinbase = cval, !.Nonce = emptyNonce]
        validators == getValidatorsFromLastCheckpoint(cfg, ch, number - 1, <<>>)
        checkpoint == number % cfg.Epoch = 0
        contract == getValidatorsFromContract(cfg, orc, number)
        parent == GetHeader(ch, header.ParentHash, number - 1)
    IN  IF number = Null \/ number = 0 THEN [err |-> Panic, header |-> named]
        ELSE IF validators.err # OK THEN [err |-> validators.err, header |-> named]
        ELSE IF validators.list = <<>> THEN [err |-> Panic, header |-> named]
        ELSE LET rated == [named EXCEPT !.Difficulty =
                              doCalcDifficulty(cfg, cval, number, validators.list)]
                 cut == [rated EXCEPT !.Extra = NewExtra(extraVanity, <<>>, 0, NoSeal)]
                 filled == [rated EXCEPT
                               !.Extra = NewExtra(extraVanity,
                                                  IF checkpoint THEN contract.list
                                                  ELSE <<>>, 0, ZeroSeal),
                               !.MixDigest = 0]
             IN  IF checkpoint /\ contract.err # OK
                 THEN [err |-> contract.err, header |-> cut]
                 ELSE IF parent = {} THEN [err |-> ErrUnknownAncestor, header |-> filled]
                 ELSE [err |-> OK,
                       header |-> [filled EXCEPT !.Time =
                           The({IF p.Time + cfg.Period < now THEN now
                                ELSE p.Time + cfg.Period : p \in parent})]]

\* the extra-data a miner hands to Prepare: nothing, a byte short of the
\* vanity, the vanity, and more than the vanity
ExtraInputs ==
    {[i \in 1..n |-> 1 + (i % 2)] : n \in {0, extraVanity - 1, extraVanity, extraVanity + AddressLength}}

\* the header a miner hands to Prepare on top of parent with the extra-data
\* bytes: number and parent hash set, the consensus fields not yet
Raw(parent, bytes) ==
    NewHeader(parent.Number + 1, Hash(parent), ZeroAddress, Null, 0,
              NewExtra(Min(Len(bytes), extraVanity), <<>>,
                       Len(bytes) - Min(Len(bytes), extraVanity), NoSeal))

\* the headers handed to Prepare: on top of the chain, with fields of an
\* old header left in it, of unknown parent, and block 0
PrepareInputs(ch, bytes) ==
    LET raw == Raw(Tip(ch), bytes) IN
    {raw, [raw EXCEPT !.MixDigest = 1, !.Nonce = 1, !.Coinbase = JunkAddress],
     [raw EXCEPT !.ParentHash = ZeroHash], [raw EXCEPT !.Number = 0]}

\* Prepare(chain, header)
Prepare ==
    /\ Idle
    /\ \E bytes \in ExtraInputs :
       \E header \in PrepareInputs(chain, bytes) :
       \E now \in {Tip(chain).Time, Tip(chain).Time + config.Period + 1} :
       \E orc \in OraclesFor(config, header) :
       \E r \in {PrepareOf(config, chain, val.val, orc, header, now)} :
           last' = [Call("Prepare", r.header, <<header>>, now, orc,
                         Ret(r.err, Engine, NoSnapshot))
                       EXCEPT !.val = val.val, !.given = bytes,
                              !.vanity = PrepareVanity(bytes)]
    /\ UNCHANGED <<config, chain, recents, disk, signatures, val, vh, sl, fz, cc>>

\* the header Prepare has filled is sealed with the key of the signing
\* function and handed to VerifyHeader, the contracts answering as they did
VerifyPrepared ==
    /\ last.op = "Prepare" /\ last.err = OK /\ ~last.prepared
    /\ val.signFn \in Authors
    /\ \E h \in {WithSeal(last.header, val.signFn)} :
       \E r \in {VerifyHeaderAndParents(config, chain, Engine, last.oracle,
                                        h.Time, h, <<>>)} :
           /\ Stores(r.e)
           /\ last' = [Call("VerifyHeader", h, <<>>, h.Time, last.oracle, r)
                          EXCEPT !.val = last.val, !.prepared = TRUE]
    /\ UNCHANGED <<config, chain, val, vh, sl, fz, cc>>

\* the blocks handed to Seal on top of the chain: the header as Prepare
\* fills it for the local signer, block 0, a header of unknown parent and
\* one whose extra-data has no room for the seal
SealBlocks(cfg, ch, coinbase) ==
    LET number == Tip(ch).Number + 1
        u == Unsigned(cfg, Tip(ch), coinbase, diffNoTurn,
                      IF number % cfg.Epoch = 0 THEN MainnetValidators ELSE <<>>)
    IN  {u, ch[1], [u EXCEPT !.ParentHash = ZeroHash],
         [u EXCEPT !.Extra = NewExtra(extraVanity, <<>>, 0, NoSeal)]}

\* seen > number-limit on uint64: below limit the difference wraps around to
\* 2^64 - (limit - number), which no block number exceeds
SeenAfter(seen, number, limit) ==
    IF number < limit THEN FALSE ELSE seen > number - limit

\* the loop of Seal over snap.Recents
RecentlySigned(snap, signer, number, validators) ==
    \E seen \in DOMAIN snap.Recents :
        /\ snap.Recents[seen] = signer
        /\ SeenAfter(seen, number, Len(validators) \div 2 + 1)

\* the delay of Seal, in units of wiggleTime (a second is two of them); rnd
\* is what rand.Int63n(wiggle) returns
SealDelay(cfg, header, signer, validators, now, rnd) ==
    (header.Time - now) * (2 * wiggleTime)
        + (IF signerInTurn(cfg, signer, header.Number, validators) THEN 0
           ELSE rnd + wiggleTime)

\* signFn(account, mimetype, consortiumRLP(header)) and the copy of the
\* signature into the last 65 bytes of the extra-data
SignHeader(signFn, header) ==
    IF signFn = "nil" \/ ExtraLen(header.Extra) < ExtraSeal
    THEN [err |-> Panic, header |-> header]
    ELSE IF signFn = "failing" THEN [err |-> errSignFn, header |-> header]
    ELSE [err |-> OK,
          header |-> [header EXCEPT !.Extra.seal = Sig(signFn, consortiumRLP(header))]]

SealRet(err, e, snap, delay, header) ==
    [err |-> err, e |-> e, snap |-> snap, delay |-> delay, header |-> header]

\* Seal once the snapshot s of the parent is retrieved; signerInTurn takes a
\* remainder by len(validators), a division by zero on an empty list
SealOn(cfg, s, header, signer, signFn, validators, now, rnd) ==
    LET signed == SignHeader(signFn, header) IN
    IF RecentlySigned(s.snap, signer, header.Number, validators)
    THEN SealRet(ErrRecentlySigned, s.e, s.snap, 0, header)
    ELSE IF validators = <<>> THEN SealRet(Panic, s.e, s.snap, 0, header)
    ELSE IF signed.err # OK THEN SealRet(signed.err, s.e, s.snap, 0, header)
    ELSE SealRet(OK, s.e, s.snap,
                 SealDelay(cfg, header, signer, validators, now, rnd), signed.header)

\* Seal from the lookup of the validators on; cval is c.val as read again,
\* signer and signFn are the credentials read under the lock
SealFrom(cfg, ch, e, cval, signer, signFn, header, now, rnd) ==
    LET number == header.Number
        validators == getValidatorsFromLastCheckpoint(cfg, ch, number - 1, <<>>)
    IN  IF validators.err # OK
        THEN SealRet(validators.err, e, NoSnapshot, 0, header)
        ELSE IF ~SignerInList(cval, validators.list)
        THEN SealRet(errUnauthorizedSigner, e, NoSnapshot, 0, header)
        ELSE The({IF s.err # OK THEN SealRet(s.err, s.e, NoSnapshot, 0, header)
                  ELSE SealOn(cfg, s, header, signer, signFn, validators.list,
                              now, rnd) :
                     s \in {snapshot(cfg, ch, e, number - 1, header.ParentHash, <<>>)}})

\* the checks of Seal on the block alone: block 0 is not sealed, and with a
\* Period of 0 neither is a block without transactions
SealBlockCheck(cfg, header, transactions) ==
    IF header.Number = 0 THEN ErrUnknownBlock
    ELSE IF cfg.Period = 0 /\ transactions = 0 THEN errSealingPaused
    ELSE OK

\* a goroutine started whatever Seal returns
SealSpawnsAlways(err) == TRUE

\* Seal reaches its go statement past every return of an error
SealSpawns(err) == err = OK

\* Seal(chain, block, results, stop) up to the read of the credentials
SealStart ==
    /\ Idle
    /\ \E header \in SealBlocks(config, chain, val.val),
          transactions \in {0, 1}, ahead \in {0, 1}, rnd \in {0, 1} :
          \E err \in {SealBlockCheck(config, header, transactions)} :
           sl' = [NoSealing EXCEPT
                     !.header = header, !.block = header,
                     !.transactions = transactions,
                     !.now = header.Time - ahead, !.rnd = rnd,
                     !.signer = val.val, !.signFn = val.signFn,
                     !.pc = IF err # OK THEN "returned" ELSE "loaded",
                     !.err = err]
    /\ UNCHANGED <<config, chain, recents, disk, signatures, val, last, vh, fz, cc>>

\* what the trailing 65 bytes of an extra-data may hold
Seals(h) == {ZeroSeal, Sig("A", SealHash(h)), Sig("B", SealHash(h)), Sig("A", ZeroHash)}

\* SealHash(header) on a block handed to Seal or on the tip of the chain,
\* and on the same header with other bytes in the last 65 of its extra-data
SealHashCall ==
    /\ Idle
    /\ \E h \in SealBlocks(config, chain, val.val) \cup {Tip(chain)} :
          \E seal \in IF h.Extra.seal.present THEN Seals(h) ELSE {NoSeal} :
             \E other \in {[h EXCEPT !.Extra.seal = seal]} :
                last' = [Call("SealHash", h, <<other>>, 0, NoOracle,
                              Ret(IF sliceOutOfRange(h) THEN Panic ELSE OK,
                                  Engine, NoSnapshot))
                            EXCEPT !.hashes = <<SealHash(h), SealHash(other)>>]
    /\ UNCHANGED <<config, chain, recents, disk, signatures, val, vh, sl, fz, cc>>

\* CalcDifficulty(chain, time, parent): nil when the validators cannot be
\* read; signerInTurn takes a remainder by len(validators), a division by
\* zero on an empty list
CalcDifficultyOf(cfg, ch, cval, parent) ==
    LET number == parent.Number + 1
        validators == getValidatorsFromLastCheckpoint(cfg, ch, number - 1, <<parent>>)
    IN  IF validators.err = Panic THEN [err |-> Panic, difficulty |-> Null]
        ELSE IF validators.err # OK THEN [err |-> OK, difficulty |-> Null]
        ELSE IF validators.list = <<>> THEN [err |-> Panic, difficulty |-> Null]
        ELSE [err |-> OK,
              difficulty |-> doCalcDifficulty(cfg, cval, number, validators.list)]

\* CalcDifficulty(chain, time, parent) with a header of the chain as parent
CalcDifficulty ==
    /\ Idle
    /\ \E parent \in Range(chain) :
          \E r \in {CalcDifficultyOf(config, chain, val.val, parent)} :
             last' = [Call("CalcDifficulty", parent, <<>>, 0, NoOracle,
                           Ret(r.err, Engine, NoSnapshot))
                         EXCEPT !.difficulty = r.difficulty]
    /\ UNCHANGED <<config, chain, recents, disk, signatures, val, vh, sl, fz, cc>>

\* Seal from there to its return: on success the goroutine is started
SealFinish ==
    /\ sl.pc = "loaded"
    /\ \E r \in {SealFrom(config, chain, Engine, val.val, sl.signer, sl.signFn,
                           sl.header, sl.now, sl.rnd)} :
           /\ Stores(r.e)
           /\ sl' = [sl EXCEPT !.pc = IF SealSpawns(r.err) THEN "spawned" ELSE "returned",
                               !.err = r.err, !.snap = r.snap, !.delay = r.delay,
                               !.header = r.header, !.member = val.val]
    /\ UNCHANGED <<config, chain, val, last, vh, fz, cc>>

\* the goroutine reaches its first select, which arms the timer: a delay of
\* zero or less makes the timer ready at once, a closed stop channel makes
\* the stop case ready; select takes any ready case, and waits without one
TaskSelect ==
    /\ sl.pc = "spawned"
    /\ \/ /\ sl.stopped
          /\ sl' = [sl EXCEPT !.pc = "done"]
       \/ /\ sl.delay <= 0
          /\ sl' = [sl EXCEPT !.pc = "publish"]
       \/ /\ ~sl.stopped /\ sl.delay > 0
          /\ sl' = [sl EXCEPT !.pc = "parked"]
    /\ UNCHANGED <<config, chain, recents, disk, signatures, val, last, vh, fz, cc>>

\* the timer fires while the goroutine waits
TimerFires ==
    /\ sl.pc = "parked"
    /\ sl' = [sl EXCEPT !.pc = "publish"]
    /\ UNCHANGED <<config, chain, recents, disk, signatures, val, last, vh, fz, cc>>

\* the caller closes the stop channel, which wakes a goroutine that waits
Stop ==
    /\ sl.pc \in {"spawned", "parked", "publish", "done"} /\ ~sl.stopped
    /\ sl' = [sl EXCEPT !.stopped = TRUE,
                        !.stopFirst = sl.pc \in {"spawned", "parked"},
                        !.pc = IF sl.pc = "parked" THEN "done" ELSE sl.pc]
    /\ UNCHANGED <<config, chain, recents, disk, signatures, val, last, vh, fz, cc>>

\* a send without a default case: the goroutine stays in the send until the
\* results channel takes the block
TaskPublishBlocking ==
    /\ sl.pc = "publish"
    /\ \E taken \in BOOLEAN :
           sl' = IF taken THEN [sl EXCEPT !.pc = "done", !.published = <<sl.header>>]
                 ELSE sl
    /\ UNCHANGED <<config, chain, recents, disk, signatures, val, last, vh, fz, cc>>

\* the second select: the block is sent if the results channel takes it
\* now, and dropped if not
TaskPublish ==
    /\ sl.pc = "publish"
    /\ \E taken \in BOOLEAN :
           sl' = [sl EXCEPT !.pc = "done",
                           !.published = IF taken THEN <<sl.header>> ELSE <<>>]
    /\ UNCHANGED <<config, chain, recents, disk, signatures, val, last, vh, fz, cc>>

(***************************************************************************)
(* Finalize and FinalizeAndAssemble.  fz is the call that has just         *)
(* returned: its header number, how many system transactions it was given, *)
(* how often it invoked WrapUpEpoch and with what outcome, what it         *)
(* returned; fz.wrapped keeps every (operation, number) WrapUpEpoch was    *)
(* invoked for.  On the handoff path FinalizeAndAssemble starts two         *)
(* goroutines and waits for them: fz.pc is "forked" from the go statements *)
(* to the return of wg.Wait(), fz.tasks the goroutines that have not yet   *)
(* finished, fz.wg the counter of the WaitGroup.  fz.state is the state    *)
(* database, told by how much of the system transactions it has taken in;  *)
(* fz.hroot is header.Root, fz.rootHash and fz.blk the variables the two   *)
(* goroutines assign.                                                      *)
(***************************************************************************)
errSystemTxs == "the length of systemTxs does not match"
errWrapUpEpoch == "WrapUpEpoch failed"
errGasOverflow == "gas consumption of system txs exceed the gas limit"

\* header numbers of the blocks finalized
FinalizeNumbers == 0..(MaxHeight + 2)

\* header.GasLimit and header.GasUsed of the blocks assembled
GasLimit == 1
GasUsedBefore == {0, 1}

\* what c.contract.WrapUpEpoch(transactOpts) may do with `given` received
\* system transactions: fail or not, leave any number of them in
\* *ReceivedTxs, use gas
WrapUpEpoch(given) ==
    {[err |-> e, left |-> l, gas |-> g] :
        e \in {OK, errWrapUpEpoch}, l \in 0..given, g \in {0, 1}}

\* IsOnConsortiumV2 of Number + 1, read as IsOnConsortiumV2 of Number
lastBlockInV1Self(cfg, number) == IsOnConsortiumV2(cfg, number)

\* lastBlockInV1 := c.chainConfig.IsOnConsortiumV2(header.Number + 1)
lastBlockInV1(cfg, number) == IsOnConsortiumV2(cfg, number + 1)

\* the length check before the handoff
systemTxsMismatch(cfg, number, given) ==
    \/ given > 0 /\ ~lastBlockInV1(cfg, number)
    \/ given = 0 /\ lastBlockInV1(cfg, number)

\* Finalize after WrapUpEpoch, without the check of what is left
afterWrapUpEpochNoLeftover(w) == w.err

\* Finalize after WrapUpEpoch returned w
afterWrapUpEpoch(w) ==
    IF w.err # OK THEN w.err
    ELSE IF w.left > 0 THEN errSystemTxs
    ELSE OK

\* state.IntermediateRoot(...): the root of the state as it is
IntermediateRoot(state) == <<"root", state>>

\* the state after WrapUpEpoch returned w: moved if it ran transactions
StateAfter(state, w) == state + w.gas

\* types.NewBlock(header, txs, nil, receipts, hasher): a copy of the header
NewBlock(hroot) == [Root |-> hroot, built |-> TRUE]

\* blk.SetRoot(rootHash)
SetRoot(blk, rootHash) == [blk EXCEPT !.Root = rootHash]

\* wg.Wait() returning though one goroutine has not called wg.Done()
WaitReturnsEarly(wg) == wg <= 1

\* wg.Wait() returns when the counter is zero
WaitReturns(wg) == wg = 0

\* Finalize(chain, header, state, txs, uncles, receipts, systemTxs, ...)
Finalize ==
    \E number \in FinalizeNumbers, given \in 0..MaxSystemTxs :
        LET call == [NoFinalize EXCEPT !.op = "Finalize", !.number = number,
                                       !.given = given, !.wrapped = fz.wrapped]
        IN  /\ fz.pc = "done"
            /\ \/ /\ systemTxsMismatch(config, number, given)
                  /\ fz' = [call EXCEPT !.err = errSystemTxs]
               \/ /\ ~systemTxsMismatch(config, number, given) /\ given = 0
                  /\ fz' = [call EXCEPT !.rooted = TRUE]
               \/ /\ ~systemTxsMismatch(config, number, given) /\ given > 0
                  /\ \E w \in WrapUpEpoch(given) :
                        fz' = [call EXCEPT
                                  !.calls = 1, !.wrap = w,
                                  !.err = afterWrapUpEpoch(w),
                                  !.rooted = afterWrapUpEpoch(w) = OK,
                                  !.wrapped = @ \cup {<<"Finalize", number>>}]
            /\ UNCHANGED <<config, chain, recents, disk, signatures, val, last, vh, sl, cc>>

\* FinalizeAndAssemble(chain, header, state, txs, uncles, receipts), up to its
\* return or, on the handoff path, up to the two go statements
FinalizeAndAssemble ==
    \E number \in FinalizeNumbers, used \in GasUsedBefore :
        LET call == [NoFinalize EXCEPT !.op = "FinalizeAndAssemble",
                                       !.number = number, !.rooted = TRUE,
                                       !.hroot = IntermediateRoot(0),
                                       !.wrapped = fz.wrapped]
        IN  /\ fz.pc = "done"
            /\ \/ /\ ~IsOnConsortiumV2(config, number + 1)
                  /\ fz' = [call EXCEPT !.block = TRUE,
                                        !.blk = NewBlock(call.hroot)]
               \/ /\ IsOnConsortiumV2(config, number + 1)
                  /\ \E w \in WrapUpEpoch(0) :
                        LET wrapped == [call EXCEPT
                                  !.calls = 1, !.wrap = w,
                                  !.state = StateAfter(0, w),
                                  !.wrapped = @ \cup {<<"FinalizeAndAssemble", number>>}]
                        IN  IF GasLimit < used + w.gas
                            THEN fz' = [wrapped EXCEPT !.err = errGasOverflow]
                            ELSE fz' = [wrapped EXCEPT !.pc = "forked", !.wg = 2,
                                                       !.tasks = {"root", "block"}]
            /\ UNCHANGED <<config, chain, recents, disk, signatures, val, last, vh, sl, cc>>

\* go func() { rootHash = state.IntermediateRoot(...); wg.Done() }()
AssembleRoot ==
    /\ fz.pc = "forked" /\ "root" \in fz.tasks
    /\ fz' = [fz EXCEPT !.rootHash = IntermediateRoot(fz.state),
                        !.tasks = @ \ {"root"}, !.wg = @ - 1]
    /\ UNCHANGED <<config, chain, recents, disk, signatures, val, last, vh, sl, cc>>

\* go func() { blk = types.NewBlock(header, ...); wg.Done() }()
AssembleBlock ==
    /\ fz.pc = "forked" /\ "block" \in fz.tasks
    /\ fz' = [fz EXCEPT !.blk = NewBlock(fz.hroot),
                        !.tasks = @ \ {"block"}, !.wg = @ - 1]
    /\ UNCHANGED <<config, chain, recents, disk, signatures, val, last, vh, sl, cc>>

\* wg.Wait(); blk.SetRoot(rootHash); return blk, receipts, nil
AssembleJoin ==
    /\ fz.pc = "forked" /\ WaitReturns(fz.wg)
    /\ fz' = [fz EXCEPT !.blk = SetRoot(fz.blk, fz.rootHash),
                        !.block = TRUE, !.pc = "done"]
    /\ UNCHANGED <<config, chain, recents, disk, signatures, val, last, vh, sl, cc>>

(***************************************************************************)
(* ChainConfig: the compatibility check of two fork schedules and the      *)
(* audit of the order of one.  A schedule is a ChainConfig reduced to its  *)
(* fork blocks (Null for nil), ChainID and DAOForkSupport.                 *)
(***************************************************************************)
\* the fork blocks of ChainConfig, in the order checkCompatible goes
\* through them, with the name each goes by in its error
compatForks ==
    << <<"HomesteadBlock", "Homestead fork block">>,
       <<"DAOForkBlock", "DAO fork block">>,
       <<"EIP150Block", "EIP150 fork block">>,
       <<"EIP155Block", "EIP155 fork block">>,
       <<"EIP158Block", "EIP158 fork block">>,
       <<"ByzantiumBlock", "Byzantium fork block">>,
       <<"ConstantinopleBlock", "Constantinople fork block">>,
       <<"PetersburgBlock", "Petersburg fork block">>,
       <<"IstanbulBlock", "Istanbul fork block">>,
       <<"MuirGlacierBlock", "Muir Glacier fork block">>,
       <<"BerlinBlock", "Berlin fork block">>,
       <<"LondonBlock", "London fork block">>,
       <<"ArrowGlacierBlock", "Arrow Glacier fork block">>,
       <<"OdysseusBlock", "Odysseus fork block">>,
       <<"FenixBlock", "Fenix fork block">>,
       <<"ConsortiumV2Block", "Consortium v2 fork block">>,
       <<"PuffyBlock", "Puffy fork block">>,
       <<"BubaBlock", "Buba fork block">>,
       <<"OlekBlock", "Olek fork block">>,
       <<"ShillinBlock", "Shillin fork block">>,
       <<"AntennaBlock", "Antenna fork block">>,
       <<"MikoBlock", "Miko fork block">>,
       <<"TrippBlock", "Tripp fork block">>,
       <<"AaronBlock", "Aaron fork block">>,
       <<"ShanghaiBlock", "Shanghai fork block">>,
       <<"CancunBlock", "Cancun fork block">>,
       <<"VenokiBlock", "Venoki fork block">>,
       <<"PragueBlock", "Prague fork block">> >>

ForkFields == {compatForks[i][1] : i \in DOMAIN compatForks}

\* no fork may be nil
NoOptionalForks == {}

\* the forks CheckConfigForkOrder may find nil without complaint
OptionalForks == {"DAOForkBlock", "MuirGlacierBlock", "ArrowGlacierBlock"}

\* the list of CheckConfigForkOrder with the forks of Ronin appended
forkOrderWithRonin == [i \in DOMAIN compatForks |-> compatForks[i][1]]

\* the list CheckConfigForkOrder iterates over
forkOrder == SubSeq([i \in DOMAIN compatForks |-> compatForks[i][1]], 1, 13)

\* rew.Uint64() - 1 whatever the sign of rew
newCompatErrorNoSign(what, storedblock, newblock) ==
    LET rew == IF storedblock = Null THEN newblock
               ELSE IF newblock = Null \/ storedblock < newblock THEN storedblock
               ELSE newblock
    IN  [What |-> what, StoredConfig |-> storedblock, NewConfig |-> newblock,
         RewindTo |-> rew - 1]

\* newCompatError(what, storedblock, newblock)
newCompatError(what, storedblock, newblock) ==
    LET rew == IF storedblock = Null THEN newblock
               ELSE IF newblock = Null \/ storedblock < newblock THEN storedblock
               ELSE newblock
    IN  [What |-> what, StoredConfig |-> storedblock, NewConfig |-> newblock,
         RewindTo |-> IF rew # Null /\ rew > 0 THEN rew - 1 ELSE 0]

\* a fork counted only if both schedules have it active at head
isForkIncompatibleBoth(s1, s2, head) ==
    (isForked(s1, head) /\ isForked(s2, head)) /\ ~configNumEqual(s1, s2)

\* isForkIncompatible(s1, s2, head)
isForkIncompatible(s1, s2, head) ==
    (isForked(s1, head) \/ isForked(s2, head)) /\ ~configNumEqual(s1, s2)

\* the Petersburg check: a Petersburg block set in the past is let through
\* if it equals the stored Constantinople block
petersburgIncompatible(c, newcfg, head) ==
    /\ isForkIncompatible(c.PetersburgBlock, newcfg.PetersburgBlock, head)
    /\ isForkIncompatible(c.ConstantinopleBlock, newcfg.PetersburgBlock, head)

\* the check of checkCompatible on the i-th fork block
forkIncompatible(c, newcfg, head, i) ==
    LET f == compatForks[i][1]
    IN  IF f = "PetersburgBlock" THEN petersburgIncompatible(c, newcfg, head)
        ELSE isForkIncompatible(c[f], newcfg[f], head)

\* the checks checkCompatible makes right after the one on the i-th fork block
flagIncompatible(c, newcfg, head, i) ==
    LET f == compatForks[i][1]
    IN  IF f = "DAOForkBlock"
             /\ isForked(c.DAOForkBlock, head)
             /\ c.DAOForkSupport # newcfg.DAOForkSupport
        THEN "DAO fork support flag"
        ELSE IF f = "EIP158Block"
                  /\ isForked(c.EIP158Block, head)
                  /\ ~configNumEqual(c.ChainID, newcfg.ChainID)
        THEN "EIP158 chain ID"
        ELSE "nil"

RECURSIVE checkCompatibleFrom(_, _, _, _)
\* checkCompatible from the i-th fork block on
checkCompatibleFrom(c, newcfg, head, i) ==
    IF i > Len(compatForks) THEN NoCompatError
    ELSE LET f == compatForks[i][1] IN
         IF forkIncompatible(c, newcfg, head, i)
         THEN newCompatError(compatForks[i][2], c[f], newcfg[f])
         ELSE IF flagIncompatible(c, newcfg, head, i) # "nil"
         THEN newCompatError(flagIncompatible(c, newcfg, head, i), c[f], newcfg[f])
         ELSE checkCompatibleFrom(c, newcfg, head, i + 1)

\* checkCompatible(newcfg, head)
checkCompatible(c, newcfg, head) == checkCompatibleFrom(c, newcfg, head, 1)

errForkOrder == "unsupported fork ordering"

RECURSIVE forkOrderFrom(_, _, _)
\* the loop of CheckConfigForkOrder from the i-th fork on; lastFork is the
\* index of the fork it compares with, 0 before the first
forkOrderFrom(c, i, lastFork) ==
    IF i > Len(forkOrder) THEN OK
    ELSE LET cur == c[forkOrder[i]]
             prev == IF lastFork = 0 THEN Null ELSE c[forkOrder[lastFork]]
         IN  IF lastFork # 0 /\ prev = Null /\ cur # Null THEN errForkOrder
             ELSE IF lastFork # 0 /\ prev # Null /\ cur # Null /\ prev > cur
             THEN errForkOrder
             ELSE forkOrderFrom(c, i + 1,
                                IF forkOrder[i] \notin OptionalForks \/ cur # Null
                                THEN i ELSE lastFork)

\* CheckConfigForkOrder()
CheckConfigForkOrderOf(c) == forkOrderFrom(c, 1, 0)

\* the fork blocks tried, and the heads
Blocks == {Null} \cup 0..MaxHeight
Heads == 0..MaxHeight

\* a ChainConfig of the given fork blocks
NewChainConfig(blocks) ==
    [f \in ForkFields \cup {"ChainID", "DAOForkSupport"} |->
        IF f = "ChainID" THEN 2020
        ELSE IF f = "DAOForkSupport" THEN FALSE
        ELSE blocks[f]]

\* every fork active from block 0, the optional ones unset
AllGenesis ==
    NewChainConfig([f \in ForkFields |-> IF f \in OptionalForks THEN Null ELSE 0])

\* the forks activated one group after the other
Staggered ==
    NewChainConfig([f \in ForkFields |->
        Min((CHOOSE i \in DOMAIN compatForks : compatForks[i][1] = f) \div 8,
            MaxHeight)])

\* no fork scheduled
Unscheduled == NewChainConfig([f \in ForkFields |-> Null])

\* Berlin and London at 5000, and Berlin moved to 4000
StoredBerlin ==
    [AllGenesis EXCEPT !.BerlinBlock = 5000, !.LondonBlock = 5000]
NewBerlin == [StoredBerlin EXCEPT !.BerlinBlock = 4000]

StoredConfigs == {AllGenesis, Staggered, Unscheduled}

\* the values a field of a ChainConfig is changed to
ValuesOf(f) ==
    IF f = "ChainID" THEN {2020, 2021}
    ELSE IF f = "DAOForkSupport" THEN BOOLEAN
    ELSE Blocks

\* the fields of a ChainConfig that are changed
ConfigFields == ForkFields \cup {"ChainID", "DAOForkSupport"}

\* the fields changed together with another
Paired ==
    {"DAOForkSupport", "ChainID", "ConstantinopleBlock", "PetersburgBlock",
     "BerlinBlock"}

\* c with the field f set to v
Changed(c, f, v) == [c EXCEPT ![f] = v]

\* the blocks an error is built for
ErrorBlocks == Blocks \cup {4000, 5000}

\* the single pass on one pair of configs
checkCompatibleOn(c, newcfg, head) ==
    [NoCheck EXCEPT !.op = "checkCompatible", !.c = c, !.newcfg = newcfg,
                    !.head = head, !.err = checkCompatible(c, newcfg, head)]

\* checkCompatible(newcfg, head), the single pass
checkCompatibleCall ==
    /\ cc = NoCheck
    /\ \/ \E c \in StoredConfigs, head \in Heads, f \in ConfigFields, g \in Paired :
             \E v \in ValuesOf(f), w \in ValuesOf(g) :
                cc' = checkCompatibleOn(c, Changed(Changed(c, f, v), g, w), head)
       \/ cc' = checkCompatibleOn(StoredBerlin, NewBerlin, 4500)
    /\ UNCHANGED <<config, chain, recents, disk, signatures, val, last, vh, sl, fz>>

\* newCompatError(what, storedblock, newblock)
newCompatErrorCall ==
    /\ cc = NoCheck
    /\ \E s \in ErrorBlocks, n \in ErrorBlocks :
          cc' = [NoCheck EXCEPT !.op = "newCompatError", !.s = s, !.n = n,
                                !.err = newCompatError("Berlin fork block", s, n)]
    /\ UNCHANGED <<config, chain, recents, disk, signatures, val, last, vh, sl, fz>>

\* CheckCompatible entered with one pair of configs
CheckCompatibleOn(c, newcfg, height) ==
    [NoCheck EXCEPT !.op = "CheckCompatible", !.pc = "loop", !.c = c,
                    !.newcfg = newcfg, !.head = height, !.bhead = height]

\* CheckCompatible(newcfg, height) up to its loop
CheckCompatible ==
    /\ cc = NoCheck
    /\ \/ \E c \in StoredConfigs, height \in Heads, f \in ConfigFields, g \in Paired :
             \E v \in ValuesOf(f), w \in ValuesOf(g) :
                cc' = CheckCompatibleOn(c, Changed(Changed(c, f, v), g, w), height)
       \/ cc' = CheckCompatibleOn(StoredBerlin, NewBerlin, 4500)
    /\ UNCHANGED <<config, chain, recents, disk, signatures, val, last, vh, sl, fz>>

\* the loop left at the second error, whatever its rewind point
lowestFoundAtOnce(err, lasterr) ==
    err = NoCompatError \/ lasterr # NoCompatError

\* the loop of CheckCompatible is left: no conflict, or the rewind point of
\* the last turn again
lowestFound(err, lasterr) ==
    err = NoCompatError
    \/ (lasterr # NoCompatError /\ err.RewindTo = lasterr.RewindTo)

\* one turn of the loop of CheckCompatible, and its return
CheckCompatibleLoop ==
    /\ cc.pc = "loop"
    /\ \E err \in {checkCompatible(cc.c, cc.newcfg, cc.bhead)} :
          IF lowestFound(err, cc.lasterr)
          THEN cc' = [cc EXCEPT !.pc = "done", !.err = cc.lasterr]
          ELSE cc' = [cc EXCEPT !.lasterr = err, !.bhead = err.RewindTo,
                                !.iter = @ + 1]
    /\ UNCHANGED <<config, chain, recents, disk, signatures, val, last, vh, sl, fz>>

\* CheckConfigForkOrder()
CheckConfigForkOrder ==
    /\ cc = NoCheck
    /\ \E c \in StoredConfigs \cup {StoredBerlin}, f \in ConfigFields, g \in Paired :
          \E v \in ValuesOf(f), w \in ValuesOf(g) :
             cc' = [NoCheck EXCEPT
                       !.op = "CheckConfigForkOrder",
                       !.c = Changed(Changed(c, f, v), g, w),
                       !.order = CheckConfigForkOrderOf(Changed(Changed(c, f, v), g, w))]
    /\ UNCHANGED <<config, chain, recents, disk, signatures, val, last, vh, sl, fz>>

\* Is<Fork>(num) on a config whose block of that fork and whose
\* Constantinople block are set to any two values; num may be nil
IsForkCall ==
    /\ cc = NoCheck
    /\ \E c \in StoredConfigs, f \in ForkFields, num \in Heads \cup {Null} :
          \E v \in Blocks, w \in Blocks :
             \E d \in {Changed(Changed(c, "ConstantinopleBlock", w), f, v)} :
                cc' = [NoCheck EXCEPT !.op = "IsFork", !.c = d, !.fork = f,
                                      !.head = num, !.forked = IsFork(d, f, num)]
    /\ UNCHANGED <<config, chain, recents, disk, signatures, val, last, vh, sl, fz>>

\* the call of a ChainConfig check returns
ConfigReturn ==
    /\ cc.op # "none" /\ cc.pc = "done"
    /\ cc' = NoCheck
    /\ UNCHANGED <<config, chain, recents, disk, signatures, val, last, vh, sl, fz>>

Next ==
    \/ VerifyHeader \/ VerifySeal \/ GetSnapshot
    \/ InsertHeader \/ Return \/ Restart

Spec == Init /\ [][Next]_vars

\* batches of headers verified on top of one another
NextVerifyHeaders ==
    \/ VerifyHeaders \/ EmitterVerify \/ EmitterSelect \/ Abort
    \/ InsertHeaders \/ Return

SpecVerifyHeaders == Init /\ [][NextVerifyHeaders]_vars

\* headers with several fields out of order verified on top of block 0
NextStandalone == VerifyHeaderOf(FlawedProbes(config, chain)) \/ Return

SpecStandalone == Init /\ [][NextStandalone]_vars

\* blocks of other signers verified and inserted, blocks of the local signer
\* sealed on top
NextSeal ==
    \/ VerifyHeaderOf(Valid(config, chain)) \/ InsertHeader \/ Return
    \/ Authorize \/ SealStart \/ SealFinish \/ SealHashCall \/ CalcDifficulty
    \/ GetSnapshot
    \/ TaskSelect \/ TimerFires \/ Stop \/ TaskPublish

SpecSeal == Init /\ [][NextSeal]_vars

\* headers prepared by the local signer, and verified once sealed
NextPrepare ==
    \/ VerifyHeaderOf(Valid(config, chain)) \/ InsertHeader \/ Return
    \/ Authorize \/ Prepare \/ VerifyPrepared

SpecPrepare == Init /\ [][NextPrepare]_vars

\* snapshots looked up with parents lists, through the caches blocks verified
\* and inserted leave and a restart empties
NextWalk ==
    \/ VerifyHeaderOf(Valid(config, chain)) \/ InsertHeader \/ Return
    \/ Restart \/ GetSnapshotWithParents

SpecWalk == Init /\ [][NextWalk]_vars

\* the same on a chain of Period 0, where blocks may follow one another
\* within a second
ZeroPeriodConfigs ==
    { [ChainID |-> 2020, Epoch |-> 3, Period |-> 0, FenixBlock |-> Null,
       ConsortiumV2Block |-> Null, skipCheckpointHeaderCheck |-> FALSE] }

InitZeroPeriod == InitOf(ZeroPeriodConfigs)

SpecSealZeroPeriod == InitZeroPeriod /\ [][NextSeal]_vars

\* the signer lists the checkpoint a chain is synced from may embed
AnchorLists == {MainnetValidators, BigList, <<"B", "A", "D">>}

\* the chains of a node synced from the first checkpoint: block 0, no header
\* of the blocks below the checkpoint, the header of the checkpoint
AnchoredChains(cfg) ==
    {<<GenesisHeader>> \o [i \in 1..(cfg.Epoch - 1) |-> NilHeader]
        \o <<WithSeal(Unsigned(cfg, [GenesisHeader EXCEPT !.Number = cfg.Epoch - 1],
                               a, diffNoTurn, l), a)>> :
        a \in Authors, l \in AnchorLists}

\* the engine as New() leaves it on such a chain
InitAnchored ==
    /\ config \in {New(c) : c \in Configs}
    /\ chain \in AnchoredChains(config)
    /\ recents = EmptyMap
    /\ disk = EmptyMap
    /\ signatures = EmptyMap
    /\ val = NoCredentials
    /\ last = NoCall
    /\ vh = NoBatch
    /\ sl = NoSealing
    /\ fz = NoFinalize
    /\ cc = NoCheck

\* headers prepared and verified on top of the checkpoint
SpecAnchored == InitAnchored /\ [][NextPrepare]_vars

\* the second select with nobody to take the block
TaskDrops == TaskPublish /\ sl'.published = <<>>

\* the goroutine of Seal is scheduled and its timer fires; nothing is assumed
\* of the reader of the results channel, nor of the caller closing stop
SealFairness ==
    /\ WF_vars(TaskSelect)
    /\ WF_vars(TimerFires)
    /\ WF_vars(TaskDrops)

SpecSealLive == Init /\ [][NextSeal]_vars /\ SealFairness

\* blocks finalized, by the importer and by the miner
NextFinalize ==
    \/ Finalize \/ FinalizeAndAssemble
    \/ AssembleRoot \/ AssembleBlock \/ AssembleJoin

SpecFinalize == Init /\ [][NextFinalize]_vars

\* chain configs checked against one another, and audited
NextConfig ==
    \/ checkCompatibleCall \/ newCompatErrorCall
    \/ CheckCompatible \/ CheckCompatibleLoop
    \/ CheckConfigForkOrder \/ IsForkCall \/ ConfigReturn

\* the checks of a ChainConfig do not go through the engine: one engine will do
InitConfig == Init /\ config.Epoch = 2

SpecConfig == InitConfig /\ [][NextConfig]_vars

(***************************************************************************)
(* Properties of header verification.  They are stated on the call that    *)
(* has just returned (last), with the signer, the turn, the parent and the *)
(* oracle answer worked out from the header and the inputs of the call.    *)
(***************************************************************************)
Verified == last.op \in {"VerifyHeader", "VerifyHeaders"}

SealChecked == Verified \/ last.op = "VerifySeal"

\* who signed the header the call was about, whatever the signature cache holds
Recovered == RecoverAddress(SealHash(last.header), last.header.Extra.seal)

\* the bytes between the vanity and the seal
SignersBytes == ExtraLen(last.header.Extra) - extraVanity - ExtraSeal

\* the errors of the checks that come before the checkpoint check
EarlierErrors ==
    {ErrUnknownBlock, ErrFutureBlock, errInvalidNonce, ErrMissingVanity,
     ErrMissingSignature, errExtraSigners, ErrInvalidMixDigest, ErrInvalidUncleHash,
     ErrInvalidDifficulty, ErrUnknownAncestor, errInvalidTimestamp}

\* the reader the checkpoint check has to ask about block number
OracleAt(number) ==
    IF config.FenixBlock # Null /\ config.FenixBlock <= number
    THEN last.oracle.fenix ELSE last.oracle.sc

\* the coinbase is the signer whose turn the header's number is
CoinbaseInTurn ==
    LET list == last.snap.SignerList
        N == last.header.Number
    IN  list[((N % config.Epoch) % Len(list)) + 1] = last.header.Coinbase

C4_DifficultyMatchesTurn ==
    (SealChecked /\ last.header.Number > 0) =>
        /\ last.err = OK =>
              /\ last.snap.SignerList # <<>>
              /\ last.header.Difficulty = diffInTurn <=> CoinbaseInTurn
              /\ last.header.Difficulty = diffNoTurn <=> ~CoinbaseInTurn
        /\ last.err = ErrWrongDifficulty =>
              /\ last.snap.SignerList # <<>>
              /\ ~(last.header.Difficulty = diffInTurn /\ CoinbaseInTurn)
              /\ ~(last.header.Difficulty = diffNoTurn /\ ~CoinbaseInTurn)
        /\ (/\ last.snap # NoSnapshot /\ last.header.Extra.seal.present
            /\ Recovered.err = OK /\ Recovered.addr = last.header.Coinbase
            /\ Recovered.addr \in last.snap.SignerSet
            /\ last.header.Difficulty # Null
            /\ \/ last.header.Difficulty # diffInTurn /\ CoinbaseInTurn
               \/ last.header.Difficulty # diffNoTurn /\ ~CoinbaseInTurn)
              => last.err = ErrWrongDifficulty

\* an in-turn header accepted above a checkpoint that is not a multiple of
\* the length of the signer list
C4_Witness ==
    /\ SealChecked /\ last.err = OK /\ last.header.Difficulty = diffInTurn
    /\ LastCheckpoint(config, last.header.Number) % Len(last.snap.SignerList) # 0

\* C6: a checkpoint header above block 0 verified with
\* skipCheckpointHeaderCheck false is accepted only if the set of addresses it
\* embeds equals the set the oracle reports for block N-1; a set that differs
\* gives ErrInvalidCheckpointSigners, and then no snapshot is retrieved and
\* no cache is written (the seal is not verified).
C6_CheckpointSignersMatchOracle ==
    (/\ Verified /\ last.header.Number > 0
     /\ last.header.Number % config.Epoch = 0
     /\ ~config.skipCheckpointHeaderCheck) =>
        LET o == OracleAt(last.header.Number - 1)
            answered == o.fn /\ ~o.fails
            embedded == Range(last.header.Extra.signers)
        IN  /\ last.err = OK => answered /\ embedded = Range(o.list)
            /\ (last.err = ErrInvalidCheckpointSigners
                /\ SignersBytes % AddressLength = 0) =>
                  /\ answered /\ embedded # Range(o.list)
                  /\ ~last.touched /\ last.snap = NoSnapshot
            /\ (answered /\ embedded # Range(o.list)) =>
                  last.err \in EarlierErrors \cup {ErrInvalidCheckpointSigners}

\* a well-formed checkpoint header, signed by an authorized signer, rejected
\* because the oracle reports another set
C6_Witness ==
    /\ Verified /\ last.err = ErrInvalidCheckpointSigners
    /\ last.header.Number > 0 /\ SignersBytes % AddressLength = 0
    /\ last.header.Extra.signers = BigList
    /\ Recovered.addr = last.header.Coinbase /\ Recovered.addr = "A"

\* C7: an accepted header above block 0 carries a non-empty signer
\* list if and only if its number is a multiple of Epoch.
C7_SignerListIffCheckpoint ==
    (Verified /\ last.err = OK /\ last.header.Number > 0) =>
        (last.header.Extra.signers # <<>> <=> last.header.Number % config.Epoch = 0)

\* the signer list in force at block number: the one the last checkpoint
\* header embeds, the genesis list below the first checkpoint
SignerListAt(number) ==
    IF LastCheckpoint(config, number) = 0 THEN getValidatorsFromGenesis(config).list
    ELSE chain[LastCheckpoint(config, number) + 1].Extra.signers

\* C8: in a chain whose headers were all accepted by VerifyHeader, two
\* blocks of one epoch (neither of them its checkpoint) signed by the same
\* author are at least floor(|signer_list| / 2) + 1 blocks apart.
C8_RecentSignersWait ==
    \A i, j \in 1..(Len(chain) - 1) :
        (/\ i < j /\ chain[i + 1].Coinbase = chain[j + 1].Coinbase
         /\ LastCheckpoint(config, i) = LastCheckpoint(config, j)
         /\ i % config.Epoch # 0)
          => j - i >= Window(SignerListAt(j)) + 1

(***************************************************************************)
(* Properties of VerifyHeaders.                                            *)
(***************************************************************************)
\* C1: while abort is not closed, the emitter sends one result per header,
\* in input order: the i-th result is the outcome of verifying the i-th header
\* with the headers before it as parents, a failed header does not end the
\* batch, and the emitter ends with as many results sent as headers given.
C1_ResultsInInputOrder ==
    vh.pc # "none" =>
        /\ Len(vh.results) <= Len(vh.calls) /\ Len(vh.calls) <= Len(vh.headers)
        /\ \A k \in 1..Len(vh.calls) :
              /\ vh.calls[k].header = vh.headers[k]
              /\ vh.calls[k].parents = SubSeq(vh.headers, 1, k - 1)
        /\ \A k \in 1..Len(vh.results) : vh.results[k] = vh.calls[k].err
        /\ ~vh.aborted =>
              /\ vh.pc = "select" => Len(vh.results) = Len(vh.calls) - 1
              /\ vh.pc # "select" => Len(vh.results) = Len(vh.calls)
              /\ vh.pc = "done" => Len(vh.results) = Len(vh.headers)

\* a batch that ended, not aborted, with a header accepted after one that failed
C1_Witness ==
    /\ vh.pc = "done" /\ ~vh.aborted /\ Len(vh.results) = 2
    /\ vh.results[1] # OK /\ vh.results[2] = OK

\* C2: once abort is closed the emitter takes up no header beyond the one in
\* progress, and sends no result for a later header.
C2_AbortStopsEmitter ==
    vh.aborted => Len(vh.calls) <= vh.cut /\ Len(vh.results) <= vh.cut

\* the parents the header of the last call has to be checked against: the
\* tail of the parents list, the chain's header at (N-1, ParentHash) without one
ParentFor ==
    LET h == last.header
        given == IF last.parents # <<>> THEN {last.parents[Len(last.parents)]}
                 ELSE Range(chain)
    IN  {p \in given : p.Number = h.Number - 1 /\ Hash(p) = h.ParentHash}

\* the errors of the checks made on the header alone
StandaloneErrors ==
    {ErrUnknownBlock, ErrFutureBlock, errInvalidNonce, ErrMissingVanity,
     ErrMissingSignature, errExtraSigners, ErrInvalidCheckpointSigners,
     ErrInvalidMixDigest, ErrInvalidUncleHash, ErrInvalidDifficulty}

\* C5: a header above block 0 accepted by verification has a parent (the
\* tail of the parents list if there is one, else the chain's header at
\* (N-1, ParentHash)) and Time >= parent.Time + Period; a header that passes
\* the checks on the header alone gets ErrUnknownAncestor without such a
\* parent and errInvalidTimestamp with a Time below parent.Time + Period.
C5_TimestampAfterParent ==
    (Verified /\ last.header.Number > 0) =>
        /\ last.err = OK =>
              /\ ParentFor # {}
              /\ \A p \in ParentFor : last.header.Time >= p.Time + config.Period
        /\ last.err = errInvalidTimestamp =>
              /\ ParentFor # {}
              /\ \A p \in ParentFor : last.header.Time < p.Time + config.Period
        /\ (ParentFor = {} /\ last.err \notin StandaloneErrors)
              => last.err = ErrUnknownAncestor
        /\ (/\ ParentFor # {} /\ last.err \notin StandaloneErrors
            /\ \E p \in ParentFor : last.header.Time < p.Time + config.Period)
              => last.err = errInvalidTimestamp

\* a header rejected for its Time against the tail of the parents list
C5_Witness ==
    /\ last.op = "VerifyHeaders" /\ last.parents # <<>>
    /\ last.err = errInvalidTimestamp

(***************************************************************************)
(* Properties of Seal.                                                     *)
(***************************************************************************)
\* C9: for every block number N >= 1 and every validator list V, a Seal
\* that gets as far as the recent-signer check returns ErrRecentlySigned
\* exactly when the snapshot at N-1 has a recents entry seen -> A of the local
\* signer A with N - seen <= floor(|V| / 2).
C9_SealWaitsOutsideWindow ==
    (sl.pc \notin {"none", "loaded"} /\ sl.snap # NoSnapshot) =>
        LET N == sl.header.Number
            V == SignerListAt(N - 1)
        IN  sl.err = ErrRecentlySigned <=>
                \E seen \in DOMAIN sl.snap.Recents :
                    /\ sl.snap.Recents[seen] = sl.signer
                    /\ N - seen <= Len(V) \div 2

\* C10: when the stop channel is closed before the goroutine of a successful
\* Seal has got past its wait for the delay, no block is sent on the results
\* channel.
C10_StopBeforeDelayPublishesNothing ==
    sl.stopFirst => sl.published = <<>>

\* C11: a Seal that succeeds, with Authorize running beside it, has checked
\* for membership in the validator list the same address it checked against
\* the recent signers and handed to the signing function, and has signed with
\* the signing function of that address: all of one Authorize call.
C11_SealUsesOneCredential ==
    (sl.pc \in {"spawned", "parked", "publish", "done"} /\ sl.err = OK) =>
        /\ sl.member = sl.signer
        /\ [val |-> sl.signer, signFn |-> sl.signFn] \in Credentials
        /\ sl.header.Extra.seal.by = sl.signFn

(***************************************************************************)
(* Properties of Finalize and FinalizeAndAssemble.                         *)
(***************************************************************************)
\* the block finalized is the one before the ConsortiumV2 activation block
LastV1Block ==
    config.ConsortiumV2Block # Null /\ fz.number + 1 = config.ConsortiumV2Block

\* C12: Finalize returns the system-tx mismatch error without invoking
\* WrapUpEpoch exactly when the list of system transactions is non-empty on a
\* block other than the last v1 block, or empty on the last v1 block; with an
\* empty list on another block it finishes with no error and no handoff, with
\* a non-empty list on the last v1 block it invokes WrapUpEpoch.
C12_SystemTxsMismatch ==
    fz.op = "Finalize" =>
        /\ (fz.err = errSystemTxs /\ fz.calls = 0) <=>
              \/ fz.given > 0 /\ ~LastV1Block
              \/ fz.given = 0 /\ LastV1Block
        /\ (fz.given = 0 /\ ~LastV1Block) =>
              fz.err = OK /\ fz.calls = 0 /\ fz.rooted
        /\ (fz.given > 0 /\ LastV1Block) => fz.calls = 1

\* a Finalize of the last v1 block refused for its empty list
C12_Witness ==
    /\ fz.op = "Finalize" /\ LastV1Block /\ fz.given = 0
    /\ fz.err = errSystemTxs /\ fz.calls = 0

\* C13: a Finalize of the last v1 block with a non-empty list succeeds only
\* if WrapUpEpoch returned no error and left no system transaction; if it
\* returned no error and left one, Finalize returns the mismatch error; if it
\* returned an error, Finalize returns that error.
C13_WrapUpEpochConsumesAll ==
    (fz.op = "Finalize" /\ LastV1Block /\ fz.given > 0) =>
        /\ fz.calls = 1
        /\ fz.err = OK <=> (fz.wrap.err = OK /\ fz.wrap.left = 0)
        /\ (fz.wrap.err = OK /\ fz.wrap.left > 0) => fz.err = errSystemTxs
        /\ fz.wrap.err # OK => fz.err = fz.wrap.err
        /\ fz.rooted <=> fz.err = OK

\* a Finalize whose WrapUpEpoch succeeded and left one of two transactions
C13_Witness ==
    /\ fz.op = "Finalize" /\ LastV1Block /\ fz.given = 2
    /\ fz.wrap.err = OK /\ fz.wrap.left = 1 /\ fz.err = errSystemTxs

\* C14: whenever WrapUpEpoch returns an error, Finalize returns an error and
\* FinalizeAndAssemble returns an error and no block.
C14_WrapUpEpochErrorIsFatal ==
    (fz.calls > 0 /\ fz.wrap.err # OK) => (fz.err # OK /\ ~fz.block)

\* C15: over every sequence of Finalize and FinalizeAndAssemble calls,
\* WrapUpEpoch is invoked only for a block whose Number + 1 is
\* ConsortiumV2Block, and never when ConsortiumV2Block is nil; a call on
\* another block invokes it not at all, a call that invokes it does so once.
C15_WrapUpEpochOnlyOnLastV1Block ==
    /\ \A w \in fz.wrapped :
          config.ConsortiumV2Block # Null /\ w[2] + 1 = config.ConsortiumV2Block
    /\ fz.calls > 0 => (LastV1Block /\ fz.calls = 1 /\ <<fz.op, fz.number>> \in fz.wrapped)
    /\ (fz.op = "FinalizeAndAssemble" /\ LastV1Block) => fz.calls = 1

\* WrapUpEpoch was invoked by both operations, and a later call on a block
\* past the activation block left it alone
C15_Witness ==
    /\ {w[1] : w \in fz.wrapped} = {"Finalize", "FinalizeAndAssemble"}
    /\ fz.op # "none" /\ fz.number >= config.ConsortiumV2Block /\ fz.calls = 0

\* FinalizeAndAssemble has returned a block on the handoff path
AssembledOnHandoff ==
    fz.op = "FinalizeAndAssemble" /\ fz.calls = 1 /\ fz.pc = "done" /\ fz.block

\* C34: on the handoff path of FinalizeAndAssemble the computation of the
\* state root and the construction of the block are two goroutines, both of
\* which have finished when the call returns, in whatever order they ran, and
\* the root of the block returned is the intermediate root of the state as
\* WrapUpEpoch left it, not the root taken before the system transactions.
C34_AssembleJoinsBoth ==
    /\ [](fz.pc = "forked" => fz.wg = Cardinality(fz.tasks))
    /\ [][(fz.pc = "forked" /\ fz'.pc = "done") => fz.tasks = {}]_vars
    /\ [](AssembledOnHandoff =>
            /\ fz.tasks = {} /\ fz.blk.built
            /\ fz.blk.Root = IntermediateRoot(fz.state))

\* a block returned on the handoff path after WrapUpEpoch moved the state, so
\* that the root of the header is not the root of the block
C34_Witness ==
    /\ AssembledOnHandoff
    /\ fz.hroot # IntermediateRoot(fz.state)
    /\ fz.blk.Root = fz.rootHash

(***************************************************************************)
(* Properties of the ChainConfig checks.                                   *)
(***************************************************************************)
\* the fork blocks of a schedule, in its order
Schedule ==
    <<"HomesteadBlock", "DAOForkBlock", "EIP150Block", "EIP155Block",
      "EIP158Block", "ByzantiumBlock", "ConstantinopleBlock", "PetersburgBlock",
      "IstanbulBlock", "MuirGlacierBlock", "BerlinBlock", "LondonBlock",
      "ArrowGlacierBlock", "OdysseusBlock", "FenixBlock", "ConsortiumV2Block",
      "PuffyBlock", "BubaBlock", "OlekBlock", "ShillinBlock", "AntennaBlock",
      "MikoBlock", "TrippBlock", "AaronBlock", "ShanghaiBlock", "CancunBlock",
      "VenokiBlock", "PragueBlock">>

\* the fork scheduled at block b is active at head h
ActiveAt(b, h) == b # Null /\ b <= h

\* the fork f of the stored and the new config of the call differs, and is
\* active in one of them at head h
Conflicting(f, h) ==
    (ActiveAt(cc.c[f], h) \/ ActiveAt(cc.newcfg[f], h)) /\ cc.c[f] # cc.newcfg[f]

\* the Petersburg block of the new config may take the place of the stored
\* Constantinople block at head h
PetersburgExempt(h) ==
    ~((ActiveAt(cc.c.ConstantinopleBlock, h) \/ ActiveAt(cc.newcfg.PetersburgBlock, h))
      /\ cc.c.ConstantinopleBlock # cc.newcfg.PetersburgBlock)

\* the rewind point of blocks s and n: the lower of the two less one, nil
\* left aside, and 0 if that is 0 or both are nil
RewindOf(s, n) ==
    LET low == IF s = Null THEN n ELSE IF n = Null THEN s ELSE Min(s, n)
    IN  IF low = Null \/ low = 0 THEN 0 ELSE low - 1

\* C16: for every fork, stored config, new config and head: a fork active at
\* the head in one of the configs, with blocks that differ, makes the single
\* pass report an incompatibility.
C16_EveryConflictReported ==
    cc.op = "checkCompatible" =>
        \A i \in DOMAIN Schedule :
            Conflicting(Schedule[i], cc.head) => cc.err # NoCompatError

\* C16, Petersburg apart: every such fork other than Petersburg makes the
\* single pass report an incompatibility; Petersburg does if, in addition,
\* the stored Constantinople block and the new Petersburg block differ with
\* one of them active at the head, and alone it does not otherwise.
C16_ConflictReportedButPetersburg ==
    cc.op = "checkCompatible" =>
        /\ \A i \in DOMAIN Schedule :
              (Conflicting(Schedule[i], cc.head)
               /\ (Schedule[i] = "PetersburgBlock" => ~PetersburgExempt(cc.head)))
                 => cc.err # NoCompatError
        /\ cc.err.What = "Petersburg fork block" =>
              Conflicting("PetersburgBlock", cc.head) /\ ~PetersburgExempt(cc.head)

\* the single pass reports the Petersburg block
C16_Witness ==
    /\ cc.op = "checkCompatible" /\ cc.err.What = "Petersburg fork block"
    /\ cc.c.PetersburgBlock = Null

\* C17: the error built for stored block s and new block n has RewindTo =
\* min(s, n) - 1 with a nil block left aside, 0 when that minimum is 0 or
\* both are nil, never below 0; stored Berlin 5000, new Berlin 4000 and head
\* 4500 give "Berlin fork block" and RewindTo 3999.
C17_RewindToBelowLowerBlock ==
    /\ cc.op = "newCompatError" =>
          /\ cc.err.RewindTo = RewindOf(cc.s, cc.n)
          /\ cc.err.RewindTo >= 0
          /\ cc.err.StoredConfig = cc.s /\ cc.err.NewConfig = cc.n
    /\ (cc.op = "checkCompatible" /\ cc.err # NoCompatError) =>
          /\ cc.err.RewindTo = RewindOf(cc.err.StoredConfig, cc.err.NewConfig)
          /\ cc.err.RewindTo >= 0
    /\ (cc.op = "checkCompatible" /\ cc.c = StoredBerlin /\ cc.newcfg = NewBerlin
        /\ cc.head = 4500) =>
          cc.err = [What |-> "Berlin fork block", StoredConfig |-> 5000,
                    NewConfig |-> 4000, RewindTo |-> 3999]

\* the error of the Berlin example
C17_Witness ==
    /\ cc.op = "checkCompatible" /\ cc.c = StoredBerlin /\ cc.head = 4500
    /\ cc.err.RewindTo = 3999

\* what CheckCompatible has to say once it has returned, but for the forks
\* its rewind point stays below
CheckCompatibleReturns ==
    /\ cc.iter <= cc.head + 1
    /\ cc.pc = "loop" =>
          /\ cc.bhead <= cc.head - cc.iter \/ cc.bhead = 0
          /\ cc.iter > 0 => cc.bhead = cc.lasterr.RewindTo
    /\ cc.pc = "done" =>
          /\ cc.err = NoCompatError
                <=> checkCompatible(cc.c, cc.newcfg, cc.head) = NoCompatError
          /\ cc.err # NoCompatError =>
                \E again \in {checkCompatible(cc.c, cc.newcfg, cc.err.RewindTo)} :
                    again = NoCompatError \/ again.RewindTo = cc.err.RewindTo

\* C18: CheckCompatible ends (each turn of its loop lowers the head), returns
\* nil exactly when the single pass at the height finds no conflict, and
\* otherwise an error whose RewindTo is at most the rewind point of every
\* fork that conflicts at the height, and at which the single pass finds no
\* conflict or the same RewindTo.
C18_LowestRewindPoint ==
    cc.op = "CheckCompatible" =>
        /\ CheckCompatibleReturns
        /\ (cc.pc = "done" /\ cc.err # NoCompatError) =>
              \A i \in DOMAIN Schedule :
                  Conflicting(Schedule[i], cc.head) =>
                      cc.err.RewindTo <= RewindOf(cc.c[Schedule[i]], cc.newcfg[Schedule[i]])

\* C18, Petersburg apart: the same, where a Petersburg block that may take
\* the place of the stored Constantinople block at the returned rewind point
\* does not count as a conflict.
C18_LowestRewindPointButPetersburg ==
    cc.op = "CheckCompatible" =>
        /\ CheckCompatibleReturns
        /\ (cc.pc = "done" /\ cc.err # NoCompatError) =>
              \A i \in DOMAIN Schedule :
                  (Conflicting(Schedule[i], cc.head)
                   /\ (Schedule[i] = "PetersburgBlock"
                          => ~PetersburgExempt(cc.err.RewindTo)))
                     => cc.err.RewindTo <= RewindOf(cc.c[Schedule[i]], cc.newcfg[Schedule[i]])

\* CheckCompatible returned, after two turns or more, an error other than
\* the one of the single pass at the height
C18_Witness ==
    /\ cc.op = "CheckCompatible" /\ cc.pc = "done" /\ cc.iter >= 2
    /\ cc.err # checkCompatible(cc.c, cc.newcfg, cc.head)

\* the forks of the ordering audit that are kept: all but the optional ones
\* that are nil
Audited ==
    SelectSeq(SubSeq(Schedule, 1, 13),
              LAMBDA f : f \notin {"DAOForkBlock", "MuirGlacierBlock", "ArrowGlacierBlock"}
                         \/ cc.c[f] # Null)

\* among them a fork is set while the one before is nil or later
OutOfOrder ==
    \E i \in 2..Len(Audited) :
        /\ cc.c[Audited[i]] # Null
        /\ cc.c[Audited[i - 1]] = Null \/ cc.c[Audited[i - 1]] > cc.c[Audited[i]]

\* C19: over Homestead .. ArrowGlacier, the ordering audit returns an error
\* if and only if, the nil optional forks (DAO, MuirGlacier, ArrowGlacier)
\* skipped, some fork is set while the one before it is nil, or both are set
\* and the one before is later.
C19_ForkOrderAudit ==
    cc.op = "CheckConfigForkOrder" => (cc.order # OK <=> OutOfOrder)

\* a config refused for Berlin, set after a nil MuirGlacier and a nil Istanbul
C19_Witness ==
    /\ cc.op = "CheckConfigForkOrder" /\ cc.order # OK
    /\ cc.c.PetersburgBlock = 0 /\ cc.c.IstanbulBlock = Null
    /\ cc.c.MuirGlacierBlock = Null /\ cc.c.BerlinBlock = 0

\* a fork from Odysseus on is set below an earlier non-optional fork, or set
\* while an earlier non-optional fork is nil
LaterOutOfOrder ==
    \E j \in 14..Len(Schedule), i \in 1..Len(Schedule) :
        /\ i < j
        /\ Schedule[i] \notin {"DAOForkBlock", "MuirGlacierBlock", "ArrowGlacierBlock"}
        /\ cc.c[Schedule[j]] # Null
        /\ cc.c[Schedule[i]] = Null \/ cc.c[Schedule[i]] > cc.c[Schedule[j]]

\* C20: a config in which a fork from Odysseus to Prague is set below an
\* earlier non-optional fork, or set while an earlier non-optional fork is
\* nil, is rejected by CheckConfigForkOrder.
C20_AuditCoversSchedule ==
    (cc.op = "CheckConfigForkOrder" /\ LaterOutOfOrder) => cc.order # OK

\* C20, as the audit goes: it stops at ArrowGlacier, and a config whose forks
\* from Odysseus to Prague are out of order is rejected only if its forks
\* Homestead .. ArrowGlacier are, and accepted otherwise.
C20_AuditStopsAtArrowGlacier ==
    (cc.op = "CheckConfigForkOrder" /\ LaterOutOfOrder) =>
        (cc.order = OK <=> ~OutOfOrder)

\* a config accepted with Odysseus set below London
C20_Witness ==
    /\ cc.op = "CheckConfigForkOrder" /\ cc.order = OK
    /\ cc.c.LondonBlock # Null /\ cc.c.OdysseusBlock # Null
    /\ cc.c.OdysseusBlock < cc.c.LondonBlock

(***************************************************************************)
(* Properties of the fork predicates.                                      *)
(***************************************************************************)
\* C21: for every fork predicate Is<Fork>(num), Homestead through Prague,
\* Petersburg included, and every num: the result is true if and only if the
\* block of the fork is not nil and <= num; a nil block or a nil num gives
\* false.
C21_ForkActiveFromItsBlock ==
    cc.op = "IsFork" =>
        (cc.forked <=> (cc.c[cc.fork] # Null /\ cc.head # Null
                        /\ cc.c[cc.fork] <= cc.head))

\* C21, Petersburg apart: the same for every fork but Petersburg;
\* IsPetersburg(num) is true if and only if num is not nil and either the
\* Petersburg block is not nil and <= num, or it is nil and the
\* Constantinople block is not nil and <= num.
C21_ForkActiveButPetersburg ==
    cc.op = "IsFork" =>
        IF cc.fork = "PetersburgBlock"
        THEN cc.forked <=>
                /\ cc.head # Null
                /\ \/ cc.c.PetersburgBlock # Null /\ cc.c.PetersburgBlock <= cc.head
                   \/ /\ cc.c.PetersburgBlock = Null
                      /\ cc.c.ConstantinopleBlock # Null
                      /\ cc.c.ConstantinopleBlock <= cc.head
        ELSE cc.forked <=> (cc.c[cc.fork] # Null /\ cc.head # Null
                            /\ cc.c[cc.fork] <= cc.head)

\* IsPetersburg answers true on a config without a Petersburg block
C21_Witness ==
    /\ cc.op = "IsFork" /\ cc.fork = "PetersburgBlock" /\ cc.forked
    /\ cc.c.PetersburgBlock = Null

(***************************************************************************)
(* Properties of the seal hash and of CalcDifficulty.                      *)
(***************************************************************************)
\* the call of SealHash was made on an extra-data of at least 65 bytes
LongEnough == ExtraLen(last.header.Extra) >= ExtraSeal

\* the seal hash leaves the trailing 65 bytes of the extra-data out: two
\* headers that differ in them alone hash alike, and the header Seal signed
\* hashes like the block it was given
SealHashLeavesSealOut ==
    /\ (last.op = "SealHash" /\ LongEnough) =>
          /\ last.hashes[1] = last.hashes[2]
          /\ last.err = OK
    /\ sl.pc \in {"spawned", "parked", "publish", "done"} =>
          /\ SealHash(sl.header) = SealHash(sl.block)
          /\ \A i \in DOMAIN sl.published :
                SealHash(sl.published[i]) = SealHash(sl.block)

\* C22: the seal hash does not depend on the trailing 65 bytes of the
\* extra-data, so the hash taken before Seal writes the signature is the hash
\* of the sealed header; on an extra-data shorter than 65 bytes SealHash
\* returns an error value.
C22_SealHashIgnoresSeal ==
    /\ SealHashLeavesSealOut
    /\ (last.op = "SealHash" /\ ~LongEnough) => last.err \notin {OK, Panic}

\* C22, as SealHash goes on a short extra-data: the same independence; on an
\* extra-data shorter than 65 bytes SealHash panics and returns nothing.
C22_SealHashIgnoresSealOrPanics ==
    /\ SealHashLeavesSealOut
    /\ (last.op = "SealHash" /\ ~LongEnough) =>
          last.err = Panic /\ last.hashes[1] = <<Panic>>

\* SealHash was taken of a sealed header of the chain and of the same
\* header with another signature in its last 65 bytes
C22_Witness ==
    /\ last.op = "SealHash" /\ last.header.Number > 0
    /\ last.header.Extra.seal.by \in Authors
    /\ last.parents[1].Extra.seal # last.header.Extra.seal
    /\ last.hashes[1] = last.hashes[2]

\* the signer list embedded in the last checkpoint at or before the parent
\* CalcDifficulty was called with (the hard-coded list for checkpoint 0)
ParentValidators == SignerListAt(last.header.Number)

\* the local signer is the one whose turn the block after that parent is
LocalSignerInTurn ==
    LET N == last.header.Number + 1
        list == ParentValidators
    IN  IF list = <<>> THEN FALSE
        ELSE list[((N % config.Epoch) % Len(list)) + 1] = val.val

\* C23: CalcDifficulty returns 3 or 7 for every parent header, chain and
\* configuration: 7 exactly when the local signer is in turn for block
\* parent.Number + 1 by the validator list of the last checkpoint at or
\* before parent.Number, 3 otherwise; it never returns nil and never fails.
C23_CalcDifficultyThreeOrSeven ==
    last.op = "CalcDifficulty" =>
        /\ last.err = OK
        /\ last.difficulty \in {diffNoTurn, diffInTurn}
        /\ last.difficulty = diffInTurn <=> LocalSignerInTurn

\* the same where that validator list is not empty
CalcDifficultyOnSigners ==
    (last.op = "CalcDifficulty" /\ ParentValidators # <<>>) =>
        /\ last.err = OK
        /\ last.difficulty \in {diffNoTurn, diffInTurn}
        /\ last.difficulty = diffInTurn <=> LocalSignerInTurn

(***************************************************************************)
(* Properties of the snapshot lookup.                                      *)
(***************************************************************************)
\* an engine that has looked nothing up yet, over an empty database
ColdEngine == [recents |-> EmptyMap, disk |-> EmptyMap, signatures |-> EmptyMap]

\* the lookup returned a snapshot
Found == last.op = "GetSnapshot" /\ last.err = OK

NamesBlock ==
    \E h \in Range(chain) : h.Number = last.number /\ Hash(h) = last.hash

\* no block of the chain has the hash the lookup was asked for
UnknownHash == \A h \in Range(chain) : Hash(h) # last.hash

C25_PersistedOnEpochOnly ==
    /\ \A h \in DOMAIN disk : disk[h].Number % config.Epoch = 0
    /\ (Found /\ last.applied > 0) =>
          /\ last.snap.Hash \in last.stored <=> last.snap.Number % config.Epoch = 0
          /\ last.snap.Hash \in last.stored => disk[last.snap.Hash] = last.snap
    /\ last.op = "GetSnapshot" =>
          \A h \in last.stored :
              \/ Found /\ last.applied > 0 /\ h = last.snap.Hash
              \/ disk[h].Number = 0

\* a lookup applied headers up to a checkpoint above block 0 and saved it
C25_Witness ==
    /\ Found /\ last.applied > 0 /\ last.snap.Number > 0
    /\ last.snap.Hash \in last.stored

\* C26: the lookup for (0, hash of block 0) returns the snapshot of block 0
\* itself: number 0, the hard-coded signer list of the chain, no recent
\* signers, no header collected or applied, whatever the caches hold.
C26_GenesisSnapshotDirectly ==
    (last.op = "GetSnapshot" /\ last.number = 0 /\ last.hash = Hash(chain[1])) =>
        /\ last.err = OK /\ last.applied = 0
        /\ last.snap.Number = 0 /\ last.snap.Hash = Hash(chain[1])
        /\ last.snap.SignerList =
              (IF config.ChainID = 2020 THEN MainnetValidators ELSE TestnetValidators)
        /\ last.snap.SignerSet = Range(last.snap.SignerList)
        /\ last.snap.Recents = NoRecents

\* the snapshot of block 0 asked of an engine that has blocks above it and
\* the snapshot in its database already
C26_Witness ==
    /\ Found /\ last.number = 0 /\ last.hash = Hash(chain[1])
    /\ Len(chain) > 1 /\ last.stored = {} /\ last.snap.Number = 0

(***************************************************************************)
(* Properties of the recent-signer window in verification and in Seal.     *)
(***************************************************************************)
\* signer has signed one of the last floor(|SignerList| / 2) blocks before
\* block number, going by the recents of snap
InWindow(snap, signer, number) ==
    \E seen \in DOMAIN snap.Recents :
        /\ snap.Recents[seen] = signer
        /\ number - seen <= Window(snap.SignerList)

\* verifySeal has got the snapshot of the parent, and the header passes its
\* coinbase, authorization and difficulty checks
SealChecksPass ==
    /\ SealChecked /\ last.header.Number > 0 /\ last.snap # NoSnapshot
    /\ last.header.Extra.seal.present /\ Recovered.err = OK
    /\ Recovered.addr = last.header.Coinbase
    /\ Recovered.addr \in last.snap.SignerSet
    /\ last.header.Difficulty = (IF CoinbaseInTurn THEN diffInTurn ELSE diffNoTurn)

\* verification accepts a header that passes the three checks of verifySeal,
\* whether or not its signer is within the window of the snapshot at N-1
VerifyIgnoresWindow == SealChecksPass => last.err = OK

\* Seal has got the snapshot of the parent and the local signer is within its
\* window
SealInWindow ==
    /\ sl.pc \notin {"none", "loaded"} /\ sl.snap # NoSnapshot
    /\ InWindow(sl.snap, sl.signer, sl.header.Number)

\* C27: header verification does not enforce the recent-signer window: a
\* header whose signer is in the recents of the snapshot at N-1 within the
\* window is accepted when its coinbase, authorization and difficulty checks
\* pass; Seal is the one that rejects such a signer, with ErrRecentlySigned.
C27_OnlySealEnforcesWindow ==
    /\ VerifyIgnoresWindow
    /\ SealInWindow => sl.err = ErrRecentlySigned

\* verification has accepted a header whose signer is within the window
VerifyAcceptsInWindow ==
    /\ SealChecksPass /\ last.err = OK
    /\ InWindow(last.snap, Recovered.addr, last.header.Number)

\* Seal has let a local signer within the window through
SealAcceptsInWindow == SealInWindow /\ sl.err = OK

(***************************************************************************)
(* Properties of the checks VerifyHeader makes on the header alone.        *)
(***************************************************************************)
\* the standalone checks in their order: whether the header of the call fails
\* the check, and the error of the check
StandaloneChecks ==
    LET h == last.header
        len == ExtraLen(h.Extra)
        checkpoint == h.Number % config.Epoch = 0
        signersBytes == len - extraVanity - ExtraSeal
    IN  << [fails |-> h.Number = Null, err |-> ErrUnknownBlock],
           [fails |-> h.Time > last.now, err |-> ErrFutureBlock],
           [fails |-> h.Nonce # emptyNonce, err |-> errInvalidNonce],
           [fails |-> len < 32, err |-> ErrMissingVanity],
           [fails |-> len < 97, err |-> ErrMissingSignature],
           [fails |-> ~checkpoint /\ signersBytes # 0, err |-> errExtraSigners],
           [fails |-> checkpoint /\ signersBytes % 20 # 0,
            err |-> ErrInvalidCheckpointSigners],
           [fails |-> h.MixDigest # 0, err |-> ErrInvalidMixDigest],
           [fails |-> h.UncleHash # uncleHash, err |-> ErrInvalidUncleHash],
           [fails |-> h.Number > 0 /\ h.Difficulty \notin {3, 7},
            err |-> ErrInvalidDifficulty] >>

\* the checks the header of the call fails
FailedChecks == {i \in DOMAIN StandaloneChecks : StandaloneChecks[i].fails}

\* the first of them
FirstFailed == CHOOSE i \in FailedChecks : \A j \in FailedChecks : i <= j

\* C28: VerifyHeader returns the error of the first standalone check the
\* header fails, the checks taken in the order: missing number, Time > now,
\* non-zero nonce, extra-data below 32 bytes, extra-data below 97 bytes,
\* signer bytes off a checkpoint or not a multiple of 20 on one, non-zero mix
\* digest, wrong uncle hash and, above block 0, a difficulty other than 3
\* and 7.
C28_FirstFailingStandaloneCheck ==
    (last.op = "VerifyHeader" /\ FailedChecks # {}) =>
        last.err = StandaloneChecks[FirstFailed].err

\* a header that fails the mix digest check and checks before and after it
C28_Witness ==
    /\ last.op = "VerifyHeader" /\ last.err = ErrInvalidMixDigest
    /\ Cardinality(FailedChecks) > 1

(***************************************************************************)
(* Properties of verification at block 0.                                  *)
(***************************************************************************)
\* the call left the engine's stores alone and worked on no snapshot
NoLookup == ~last.touched /\ last.snap = NoSnapshot

VerifySealOfBlockZero ==
    /\ last.op = "VerifySeal" /\ last.header.Number = 0
    /\ last.err = ErrUnknownBlock /\ DOMAIN recents # {}

\* VerifyHeader has returned for a header that fails a standalone check
FailedStandalone == last.op = "VerifyHeader" /\ FailedChecks # {}

\* C35: a header that fails a standalone check is rejected before any of the
\* cascading work: the call looks up no parent and no snapshot, asks no
\* oracle and recovers no signer, so it returns no snapshot and leaves the
\* snapshot cache, the signature cache and the snapshot store as they were.
C35_StandaloneFailureTouchesNothing ==
    /\ [](FailedStandalone => (NoLookup /\ last.err = StandaloneChecks[FirstFailed].err))
    /\ [][(last' # last /\ FailedStandalone')
            => UNCHANGED <<recents, disk, signatures>>]_vars

\* a sealed header on top of the chain, whose only fault is its time, rejected
\* by an engine that holds snapshots and has no signature of it cached
C35_Witness ==
    /\ FailedStandalone /\ last.err = ErrFutureBlock
    /\ last.header.Number = Len(chain) /\ last.header.Extra.seal # NoSeal
    /\ DOMAIN recents # {}
    /\ Hash(last.header) \notin DOMAIN signatures

(***************************************************************************)
(* Properties of a Seal that returns an error.                             *)
(***************************************************************************)
\* Seal has returned an error
SealFailed == sl.pc # "none" /\ sl.err # OK

\* C30: when Seal returns an error (block 0, a Period of 0 and a block
\* without transactions, a local signer outside the validator list or within
\* the recent-signer window, a failed snapshot lookup, a failed signing
\* function) no goroutine is started for the call and no block is published
\* on the results channel, then or later.
C30_FailedSealPublishesNothing ==
    /\ [](SealFailed => sl.pc = "returned" /\ sl.published = <<>>)
    /\ [][SealFailed => /\ sl'.pc \in {"returned", "none"}
                        /\ sl'.published = <<>>]_vars

\* a Seal refused for the want of transactions on a chain of Period 0
C30_Witness ==
    /\ sl.pc = "returned" /\ sl.err = errSealingPaused
    /\ sl.header.Number > 0 /\ sl.published = <<>>

(***************************************************************************)
(* Properties of the goroutine of Seal.                                    *)
(***************************************************************************)
\* the goroutine of a successful Seal is running
TaskRunning == sl.pc \in {"spawned", "parked", "publish"}

\* C31: the goroutine of a successful Seal ends once its delay has elapsed
\* or stop is closed, whether or not anybody receives from the results
\* channel: the send is not a blocking one, the block is dropped when the
\* channel does not take it, and one call publishes one block at most.
C31_SealTaskTerminates ==
    /\ [](Len(sl.published) <= 1)
    /\ [][(sl.pc = "publish" /\ sl'.pc # "publish") => sl'.pc = "done"]_vars
    /\ TaskRunning ~> sl.pc = "done"

\* the goroutine has ended after a send nobody took
C31_Witness ==
    /\ sl.pc = "done" /\ sl.err = OK /\ ~sl.stopped /\ sl.published = <<>>

(***************************************************************************)
(* Properties of Prepare.                                                  *)
(***************************************************************************)
Prepared == last.op = "Prepare" /\ last.err = OK

\* C32: after a successful Prepare the extra-data is 32 bytes of vanity (the
\* first 32 bytes it was given, filled up with zero bytes), then the signer
\* set the oracle of block Number reports, on a checkpoint only, then 65 zero
\* bytes; nonce and mix digest are zero; the header passes the nonce, the
\* extra-data and the mix digest checks of VerifyHeader.
C32_PreparedExtraLayout ==
    Prepared =>
        LET h == last.header
            N == h.Number
            set == IF N % config.Epoch = 0 THEN OracleAt(N).list ELSE <<>>
        IN  /\ Len(last.vanity) = 32
            /\ \A i \in 1..32 :
                  last.vanity[i] = IF i <= Len(last.given) THEN last.given[i] ELSE 0
            /\ h.Extra.vanity = 32 /\ h.Extra.slack = 0
            /\ h.Extra.signers = set
            /\ h.Extra.seal = ZeroSeal
            /\ ExtraLen(h.Extra) = 32 + 20 * Len(set) + 65
            /\ h.Nonce = 0 /\ h.MixDigest = 0
            /\ FailedChecks \cap 3..8 = {}

\* a checkpoint header prepared from a short extra-data and a used header
C32_Witness ==
    /\ Prepared /\ last.header.Number % config.Epoch = 0
    /\ Len(last.given) = 31 /\ last.parents[1].MixDigest # 0
    /\ Len(last.header.Extra.signers) > 0

\* C33: a successful Prepare sets Coinbase to the local signer, and
\* Difficulty to 7 when the local signer is
\* validators[(Number mod Epoch) mod |validators|] and to 3 when it is not,
\* validators being the list of the last checkpoint at or before Number-1
\* (the hard-coded list for block 0); of four validators the second is in
\* turn at block 17, and the others get 3.
C33_PreparedDifficulty ==
    /\ Prepared =>
          LET h == last.header
              N == h.Number
              validators == SignerListAt(N - 1)
              turn == validators[((N % config.Epoch) % Len(validators)) + 1]
          IN  /\ h.Coinbase = last.val
              /\ h.Difficulty = IF turn = last.val THEN 7 ELSE 3
    /\ \A signer \in {"A", "B", "C", "D"} :
          doCalcDifficulty([Epoch |-> epochLength], signer, 17, <<"A", "B", "C", "D">>)
              = IF signer = "B" THEN 7 ELSE 3

\* a header prepared in turn after a checkpoint that changed the list
C33_Witness ==
    /\ Prepared /\ last.header.Difficulty = 7
    /\ last.header.Number > config.Epoch
    /\ SignerListAt(last.header.Number - 1) = BigList

\* a header prepared out of turn
PreparedOutOfTurn == Prepared /\ last.header.Difficulty = 3

\* C36: the signer set Prepare embeds in a checkpoint header is the one
\* verification compares it with: both ask the same contract reader, also
\* at the block Fenix starts with, so VerifyHeader does not answer
\* ErrInvalidCheckpointSigners to a header Prepare has filled, whatever the
\* two readers report.
C36_PreparedCheckpointAccepted ==
    (last.op = "VerifyHeader" /\ last.prepared) =>
        last.err # ErrInvalidCheckpointSigners

\* away from the block Fenix starts with, the prepared checkpoint header
\* passes the checkpoint check
PreparedCheckpointOffFenix ==
    (last.op = "VerifyHeader" /\ last.prepared
     /\ config.FenixBlock # last.header.Number) =>
        last.err # ErrInvalidCheckpointSigners


(***************************************************************************)
(* Properties of the signer list verification and authoring work with.     *)
(***************************************************************************)
\* a verification has worked on the snapshot of the parent of its header
SnapshotUsed ==
    last.op \in {"VerifyHeader", "VerifySeal"} /\ last.snap # NoSnapshot

\* what Prepare, Seal and CalcDifficulty read for the header of the call
CheckpointList ==
    getValidatorsFromLastCheckpoint(config, chain, last.header.Number - 1, <<>>).list

\* the database holds the header of every block of the chain
FullChain == \A i \in 1..Len(chain) : chain[i].Number # Null

\* C37: for every block N >= 1 the signer list of the snapshot at N - 1 that
\* verifySeal works with is the list getValidatorsFromLastCheckpoint gives
\* Prepare, Seal and CalcDifficulty for N - 1, also when the snapshot was made
\* at a trusted checkpoint above block 0, and so no header is refused with
\* ErrWrongDifficulty for the difficulty Prepare gave it.
C37_SnapshotListIsCheckpointList ==
    /\ SnapshotUsed => last.snap.SignerList = CheckpointList
    /\ (last.op = "VerifyHeader" /\ last.prepared) => last.err # ErrWrongDifficulty

\* the same where no header is missing from the database
ListsAgreeOnFullChain ==
    FullChain =>
        /\ SnapshotUsed => last.snap.SignerList = CheckpointList
        /\ (last.op = "VerifyHeader" /\ last.prepared) => last.err # ErrWrongDifficulty

\* a prepared header verified on a snapshot made of a checkpoint header
PreparedOnCheckpointList ==
    /\ SnapshotUsed /\ last.prepared /\ last.err = OK
    /\ last.snap.SignerList # MainnetValidators

\* a prepared header refused for its difficulty
PreparedWrongDifficulty ==
    last.op = "VerifyHeader" /\ last.prepared /\ last.err = ErrWrongDifficulty


(***************************************************************************)
(* Properties of the number and hash of the snapshots looked up.           *)
(***************************************************************************)
\* every entry of the in-memory cache is filed under its own hash
KeyedByOwnHash == \A k \in DOMAIN recents : recents[k].Hash = k

\* the snapshot returned is the one made of the chain's header of the number
\* asked for, without a header applied
MadeOfCanonicalHeader ==
    /\ last.applied = 0 /\ last.snap.Number = last.number
    /\ last.number = 0 \/ last.number % config.Epoch = 0
    /\ \E h \in GetHeaderByNumber(chain, last.number) : last.snap.Hash = Hash(h)

\* C38: a successful lookup for (number, hash) returns a snapshot of that
\* number and that hash, also where it ends at block 0 or at a trusted
\* checkpoint and the hash asked for is not the hash of the chain's header of
\* that number; every entry of the in-memory cache is filed under its own hash.
C38_SnapshotIsOfRequest ==
    /\ Found => (last.snap.Number = last.number /\ last.snap.Hash = last.hash)
    /\ KeyedByOwnHash

\* C38, amended: a successful lookup for a pair that names a block of the
\* chain returns a snapshot of that number and that hash, and so does every
\* lookup that applied a header; a lookup that ends at once at block 0 or at a
\* trusted checkpoint returns the snapshot of the chain's header of that
\* number, whose hash need not be the hash asked for, and a lookup answered
\* from the cache returns the snapshot filed under the hash, whose number need
\* not be the number asked for; every entry of the in-memory cache is filed
\* under its own hash.
C38_SnapshotIsOfRequestOrAnchor ==
    /\ Found =>
          /\ (NamesBlock \/ last.applied > 0)
                => (last.snap.Number = last.number /\ last.snap.Hash = last.hash)
          /\ last.snap.Hash # last.hash => MadeOfCanonicalHeader
          /\ last.snap.Number # last.number
                => (last.applied = 0 /\ last.snap.Hash = last.hash)
    /\ KeyedByOwnHash

\* block 0 looked up under a hash that is not its own, on an engine with
\* snapshots in its cache
C38_Witness ==
    /\ Found /\ last.number = 0 /\ last.hash = ZeroHash
    /\ last.snap.Hash = Hash(chain[1]) /\ DOMAIN recents # {}

\* a lookup answered from the cache with the snapshot of another number
CachedUnderOtherNumber == Found /\ last.snap.Number # last.number


(***************************************************************************)
(* Properties of the backward walk of the snapshot lookup.                 *)
(***************************************************************************)
\* the parents the walk took from the list handed to it
Popped == Len(last.parents) - Len(last.walk.parents)

\* the walk stopped for want of the header of the block it had come to
NoHeaderAtStop ==
    IF last.walk.parents # <<>>
    THEN \E p \in {last.walk.parents[Len(last.walk.parents)]} :
            Hash(p) # last.walk.hash \/ p.Number # last.walk.number
    ELSE GetHeader(chain, last.walk.hash, last.walk.number) = {}

\* C39: the backward walk of the lookup comes to an end for every chain,
\* parents list and state of the caches: each step takes one header, from
\* the tail of the parents while there are any (a parent of another number
\* or hash ends the lookup with ErrUnknownAncestor), and lowers the number by
\* one; the walk stops at block 0 at the latest and the number never goes
\* below 0.
C39_WalkStopsByBlockZero ==
    last.op = "GetSnapshot" =>
        /\ last.walk.number >= 0
        /\ last.walk.number = last.number - last.applied
        /\ Popped = Min(last.applied, Len(last.parents))
        /\ last.walk.parents = SubSeq(last.parents, 1, Len(last.walk.parents))
        /\ last.walk.err \in {OK, ErrUnknownAncestor}
        /\ last.walk.err = ErrUnknownAncestor => (NoHeaderAtStop /\ last.err = ErrUnknownAncestor)
        /\ last.walk.err = OK => (last.walk.number = 0 \/ last.walk.hash \in DOMAIN recents \cup DOMAIN disk)

\* a walk that took two parents from the list and came down to block 0
C39_Witness ==
    /\ last.op = "GetSnapshot" /\ last.err = OK
    /\ Len(last.parents) = 2 /\ Popped = 2 /\ last.applied = 2
    /\ last.walk.number = 0

\* a walk that took one parent and was ended by the next, of another number
WalkEndedByParent ==
    /\ last.op = "GetSnapshot" /\ last.err = ErrUnknownAncestor
    /\ Popped = 1 /\ last.walk.parents # <<>>

\* a walk that went on in the database when the parents were used up
WalkWentOnInDatabase ==
    /\ last.op = "GetSnapshot" /\ last.err = OK
    /\ last.parents # <<>> /\ last.applied > Popped /\ Popped > 0


(***************************************************************************)
(* Properties of the turn computation on an empty list of validators.      *)
(***************************************************************************)
\* Seal has read the validators of its block and gone on from there
SealReadValidators ==
    /\ sl.pc \notin {"none", "loaded"}
    /\ SealBlockCheck(config, sl.block, sl.transactions) = OK

\* the list Seal read
SealValidators ==
    getValidatorsFromLastCheckpoint(config, chain, sl.block.Number - 1, <<>>)

\* verifySeal has worked on a snapshot with no signers
VerifiedOnNoSigners == SnapshotUsed /\ last.snap.SignerList = <<>>

\* C40: verifySeal and Seal never compute the turn on an empty list of
\* validators: a snapshot without signers and an empty list of the last
\* checkpoint are refused with errUnauthorizedSigner before signerInTurn takes
\* the remainder by the length of the list, so neither divides by zero nor
\* indexes an empty list.
C40_NoTurnOnEmptyList ==
    /\ VerifiedOnNoSigners =>
          /\ last.err \notin {Panic, OK, ErrWrongDifficulty}
          /\ (Recovered.err = OK /\ Recovered.addr = last.header.Coinbase)
                => last.err = errUnauthorizedSigner
    /\ (SealReadValidators /\ SealValidators.err = OK /\ SealValidators.list = <<>>)
          => sl.err = errUnauthorizedSigner
    /\ \A k \in DOMAIN recents :
          recents[k].SignerList = <<>> => recents[k].SignerSet = {}

\* Seal by an authorized signer on top of a checkpoint of no signers
C40_Witness ==
    /\ SealReadValidators /\ SealValidators.err = OK /\ SealValidators.list = <<>>
    /\ sl.signer \in Authors /\ sl.signFn \in Authors
    /\ sl.err = errUnauthorizedSigner

\* a sealed header of the right coinbase verified on a snapshot of no signers
VerifiedSealOnNoSigners ==
    /\ VerifiedOnNoSigners /\ Recovered.err = OK
    /\ Recovered.addr = last.header.Coinbase
    /\ last.err = errUnauthorizedSigner

====
